---- MODULE Spec2Model ----
(***************************************************************************)
(* Receipt batch ingestion (process-receipt route): retry policy, error    *)
(* classifier, per-document pipeline with one transaction per document,    *)
(* and the batch POST handler that fans out and joins the pipelines.       *)
(***************************************************************************)
EXTENDS Integers, Sequences, FiniteSets, TLC

(***************************************************************************)
(* Bounds of the model                                                     *)
(***************************************************************************)
\* largest accepted batch whose pipelines are explored concurrently
MaxBatch == 2
\* largest number of line items in an extracted record
MaxItems == 2
\* number of connections the pool can hand out
PoolSize == 2
\* largest maxAttempts of a retry policy explored on its own
MaxPolicyAttempts == 3
\* most receipts in the tables when a read request starts
MaxStored == 3
\* most receipts committed by batches while a read request runs
MaxCommits == 1

(***************************************************************************)
(* Program constants                                                       *)
(***************************************************************************)
MAX_FILES == 5
\* the policy processSingleReceipt passes to retryWithBackoff
PipelineOptions ==
    [maxAttempts |-> 3, baseDelay |-> 1000, maxDelay |-> 10000, backoffMultiplier |-> 2]

(***************************************************************************)
(* Failure objects.  A thrown value is described by what the code looks    *)
(* at: whether it is an Error instance, its status field (NoStatus when    *)
(* undefined), and which of the inspected substrings its message holds.    *)
(***************************************************************************)
NoStatus == -1
Markers == {"Failed to parse", "validation failed", "Content blocked", "Database operation failed"}

Failure(isErr, st, marks) == [isError |-> isErr, status |-> st, msg |-> marks]

\* what the extraction call is observed to throw
ExtractionFaults ==
    { Failure(TRUE, 503, {}), Failure(TRUE, 429, {}), Failure(TRUE, 400, {}),
      Failure(TRUE, NoStatus, {}), Failure(TRUE, NoStatus, {"Content blocked"}),
      Failure(FALSE, NoStatus, {}) }

isNonRetryableError(error) ==
    IF ~error.isError THEN FALSE
    ELSE \/ /\ error.status # NoStatus
            /\ error.status >= 400 /\ error.status < 500 /\ error.status # 429
         \/ "Failed to parse" \in error.msg
         \/ "validation failed" \in error.msg
         \/ "Content blocked" \in error.msg

Class(t, r) == [type |-> t, shouldRetry |-> r]

\* the switch without its default branch
classifyErrorNoDefault(error) ==
    IF ~error.isError THEN Class("unknown", FALSE)
    ELSE IF error.status = 503 THEN Class("service_unavailable", TRUE)
    ELSE IF error.status = 429 THEN Class("rate_limit", TRUE)
    ELSE IF error.status = 400 THEN Class("invalid_request", FALSE)
    ELSE IF error.status = 401 THEN Class("auth_error", FALSE)
    ELSE IF "Content blocked" \in error.msg THEN Class("content_blocked", FALSE)
    ELSE IF "Failed to parse" \in error.msg THEN Class("parsing_error", FALSE)
    ELSE IF "Database operation failed" \in error.msg THEN Class("database_error", TRUE)
    ELSE Class("general_error", FALSE)

\* case 400 widened to every other 4xx status
classifyErrorAny4xx(error) ==
    IF ~error.isError THEN Class("unknown", FALSE)
    ELSE IF error.status = 503 THEN Class("service_unavailable", TRUE)
    ELSE IF error.status = 429 THEN Class("rate_limit", TRUE)
    ELSE IF error.status = 401 THEN Class("auth_error", FALSE)
    ELSE IF error.status # NoStatus /\ error.status >= 400 /\ error.status < 500
         THEN Class("invalid_request", FALSE)
    ELSE IF error.status # NoStatus /\ error.status >= 500 THEN Class("server_error", TRUE)
    ELSE IF "Content blocked" \in error.msg THEN Class("content_blocked", FALSE)
    ELSE IF "Failed to parse" \in error.msg THEN Class("parsing_error", FALSE)
    ELSE IF "Database operation failed" \in error.msg THEN Class("database_error", TRUE)
    ELSE Class("general_error", FALSE)

\* without the instanceof Error test
classifyErrorNoInstanceTest(error) ==
    IF error.status = 503 THEN Class("service_unavailable", TRUE)
    ELSE IF error.status = 429 THEN Class("rate_limit", TRUE)
    ELSE IF error.status = 400 THEN Class("invalid_request", FALSE)
    ELSE IF error.status = 401 THEN Class("auth_error", FALSE)
    ELSE IF error.status # NoStatus /\ error.status >= 500 THEN Class("server_error", TRUE)
    ELSE IF "Content blocked" \in error.msg THEN Class("content_blocked", FALSE)
    ELSE IF "Failed to parse" \in error.msg THEN Class("parsing_error", FALSE)
    ELSE IF "Database operation failed" \in error.msg THEN Class("database_error", TRUE)
    ELSE Class("general_error", FALSE)

\* the parsing test ahead of the content test
classifyErrorParseFirst(error) ==
    IF ~error.isError THEN Class("unknown", FALSE)
    ELSE IF error.status = 503 THEN Class("service_unavailable", TRUE)
    ELSE IF error.status = 429 THEN Class("rate_limit", TRUE)
    ELSE IF error.status = 400 THEN Class("invalid_request", FALSE)
    ELSE IF error.status = 401 THEN Class("auth_error", FALSE)
    ELSE IF error.status # NoStatus /\ error.status >= 500 THEN Class("server_error", TRUE)
    ELSE IF "Failed to parse" \in error.msg THEN Class("parsing_error", FALSE)
    ELSE IF "Content blocked" \in error.msg THEN Class("content_blocked", FALSE)
    ELSE IF "Database operation failed" \in error.msg THEN Class("database_error", TRUE)
    ELSE Class("general_error", FALSE)

\* instanceof Error, the switch on status, then the message tests in order
classifyError(error) ==
    IF ~error.isError THEN Class("unknown", FALSE)
    ELSE IF error.status = 503 THEN Class("service_unavailable", TRUE)
    ELSE IF error.status = 429 THEN Class("rate_limit", TRUE)
    ELSE IF error.status = 400 THEN Class("invalid_request", FALSE)
    ELSE IF error.status = 401 THEN Class("auth_error", FALSE)
    ELSE IF error.status # NoStatus /\ error.status >= 500 THEN Class("server_error", TRUE)
    ELSE IF "Content blocked" \in error.msg THEN Class("content_blocked", FALSE)
    ELSE IF "Failed to parse" \in error.msg THEN Class("parsing_error", FALSE)
    ELSE IF "Database operation failed" \in error.msg THEN Class("database_error", TRUE)
    ELSE Class("general_error", FALSE)

(***************************************************************************)
(* retryWithBackoff: delay computation and the decision after a failure    *)
(***************************************************************************)
RECURSIVE Pow(_, _)
Pow(b, e) == IF e <= 0 THEN 1 ELSE b * Pow(b, e - 1)

Min(a, b) == IF a <= b THEN a ELSE b

\* the delay without the exponent
BackoffDelayNoGrowth(options, attempt) == Min(options.baseDelay, options.maxDelay)

\* Math.min(baseDelay * Math.pow(backoffMultiplier, attempt - 1), maxDelay)
BackoffDelay(options, attempt) ==
    Min(options.baseDelay * Pow(options.backoffMultiplier, attempt - 1), options.maxDelay)

\* the catch block without the test for the last attempt
AfterFailureNoLastTest(error, attempt, options) ==
    IF isNonRetryableError(error) THEN "throw" ELSE "sleep"

\* the catch block of the loop: "throw" or "sleep"
AfterFailure(error, attempt, options) ==
    IF isNonRetryableError(error) THEN "throw"
    ELSE IF attempt = options.maxAttempts THEN "throw"
    ELSE "sleep"

(***************************************************************************)
(* State                                                                   *)
(***************************************************************************)
VARIABLES
    formDataOk, \* whether request.formData() resolves for this request
    files,      \* entries of the 'receiptImages' form field of the request
    postPc,     \* position of POST: "idle", "waiting" (allSettled), "responded"
    response,   \* the NextResponse sent by POST
    pipe,       \* one record per processSingleReceipt invocation
    conn,       \* the pool's connections and the session state of each
    receipts,   \* committed rows of table receipts
    line_items, \* committed rows of table line_items
    nextId,     \* the sequence behind receipt_id
    rOpts,      \* retryWithBackoff on its own: the options
    rPc,        \* "calling", "sleeping", "returned", "thrown"
    rAttempt,   \* the loop variable attempt
    rErrs,      \* the failure of each failed attempt, in order
    rSleeps,    \* the delay of each setTimeout, in order
    rOutcome,   \* what retryWithBackoff returned or threw
    cError,     \* classifyError on its own: the argument
    cInfo,      \* what classifyError returned for it
    dash,       \* one dashboard-data request and the Dashboard showing its answer
    hist,       \* one recent-receipts request
    commits,    \* receipts committed by batches while a read request runs
    twins,      \* two documents that differ in file name only, failing alike
    view        \* the mounted component (ReceiptView or Dashboard) and its fetches

pipeVars == <<formDataOk, files, postPc, response, pipe, conn, receipts, line_items, nextId>>
retryVars == <<rOpts, rPc, rAttempt, rErrs, rSleeps, rOutcome>>
classifyVars == <<cError, cInfo>>
readVars == <<dash, hist, commits>>
clientVars == <<twins, view>>
vars == <<formDataOk, files, postPc, response, pipe, conn, receipts, line_items, nextId,
          rOpts, rPc, rAttempt, rErrs, rSleeps, rOutcome, cError, cInfo,
          dash, hist, commits, twins, view>>

(***************************************************************************)
(* retryWithBackoff as a process of its own                                *)
(***************************************************************************)
Policies ==
    [maxAttempts : 0..MaxPolicyAttempts, baseDelay : {1000}, maxDelay : {1500, 10000},
     backoffMultiplier : {1, 2}]

Values == {"v1", "v2"}
Undefined == Failure(FALSE, NoStatus, {})
NoOutcome == [kind |-> "none", value |-> "", error |-> Undefined]
\* a return that drops the value of the attempt
ReturnedNothing(v) == [kind |-> "value", value |-> "", error |-> Undefined]
Returned(v) == [kind |-> "value", value |-> v, error |-> Undefined]
Thrown(e) == [kind |-> "error", value |-> "", error |-> e]

RetryIdle ==
    /\ rOpts = PipelineOptions
    /\ rPc = "unused"
    /\ rAttempt = 0
    /\ rErrs = <<>>
    /\ rSleeps = <<>>
    /\ rOutcome = NoOutcome

\* entry of retryWithBackoff: the loop runs only when 1 <= maxAttempts
RetryStart ==
    /\ rOpts \in Policies \cup {PipelineOptions}
    /\ rAttempt = 1
    /\ rErrs = <<>>
    /\ rSleeps = <<>>
    /\ IF rOpts.maxAttempts >= 1
       THEN rPc = "calling" /\ rOutcome = NoOutcome
       ELSE rPc = "thrown" /\ rOutcome = Thrown(Undefined)

\* return await operation()
RetryAttemptOk(v) ==
    /\ rPc = "calling"
    /\ rPc' = "returned"
    /\ rOutcome' = Returned(v)
    /\ UNCHANGED <<rOpts, rAttempt, rErrs, rSleeps>>
    /\ UNCHANGED <<pipeVars, classifyVars, readVars, clientVars>>

\* catch (error): rethrow, or compute the delay and start the timer
RetryAttemptFail(error) ==
    /\ rPc = "calling"
    /\ rErrs' = Append(rErrs, error)
    /\ IF AfterFailure(error, rAttempt, rOpts) = "throw"
       THEN /\ rPc' = "thrown"
            /\ rOutcome' = Thrown(error)
            /\ UNCHANGED rSleeps
       ELSE /\ rPc' = "sleeping"
            /\ rSleeps' = Append(rSleeps, BackoffDelay(rOpts, rAttempt))
            /\ UNCHANGED rOutcome
    /\ UNCHANGED <<rOpts, rAttempt>>
    /\ UNCHANGED <<pipeVars, classifyVars, readVars, clientVars>>

\* the timer fires: attempt++ and the loop condition
RetryWake ==
    /\ rPc = "sleeping"
    /\ rAttempt' = rAttempt + 1
    /\ IF rAttempt + 1 <= rOpts.maxAttempts
       THEN rPc' = "calling" /\ UNCHANGED rOutcome
       ELSE rPc' = "thrown" /\ rOutcome' = Thrown(rErrs[Len(rErrs)])
    /\ UNCHANGED <<rOpts, rErrs, rSleeps>>
    /\ UNCHANGED <<pipeVars, classifyVars, readVars, clientVars>>

(***************************************************************************)
(* classifyError as a process of its own: any thrown value, classified once *)
(***************************************************************************)
\* status fields explored: undefined, the cases of the switch, further 4xx and
\* 5xx codes, and a success code
StatusCodes == {NoStatus, 200, 400, 401, 403, 404, 413, 422, 429, 500, 502, 503, 504}
FailureObjects ==
    {Failure(isErr, st, marks) : isErr \in BOOLEAN, st \in StatusCodes, marks \in SUBSET Markers}

NoInfo == Class("", FALSE)

ClassifyIdle ==
    /\ cError = Undefined
    /\ cInfo = NoInfo

ClassifyStart ==
    /\ cError \in FailureObjects
    /\ cInfo = NoInfo

\* const errorInfo = classifyError(error)
Classify ==
    /\ cInfo = NoInfo
    /\ cInfo' = classifyError(cError)
    /\ UNCHANGED cError
    /\ UNCHANGED <<pipeVars, retryVars, readVars, clientVars>>

(***************************************************************************)
(* Requests, extraction responses and candidate records                    *)
(***************************************************************************)
FileEntry(n) == [isFile |-> TRUE, name |-> n]
StringEntry == [isFile |-> FALSE, name |-> ""]

\* batch sizes explored: rejected sizes 0 and MAX_FILES + 1, accepted 1..MaxBatch
BatchSizes == (0..MaxBatch) \cup {MAX_FILES + 1}
\* file names: one per position
NameAt(k) == <<"1.jpg", "2.jpg", "3.jpg", "4.jpg", "5.jpg", "6.jpg">>[k]
DistinctNames(n) == [k \in 1..n |-> FileEntry(NameAt(k))]
\* requests explored: only files, or one entry that is a string
Requests ==
    {DistinctNames(n) : n \in BatchSizes}
    \cup UNION {{[DistinctNames(n) EXCEPT ![k] = StringEntry] : k \in 1..n} : n \in BatchSizes}

lineItemCategories ==
    {"PRODUCE", "MEAT_POULTRY", "SEAFOOD", "EGGS", "GRAINS_PASTA", "LEGUMES_NUTS_SEEDS",
     "OILS_FATS", "SPICES_CONDIMENTS", "BEVERAGES", "SNACKS_SWEETS", "FROZEN_FOODS",
     "PANTRY_STAPLES", "HOUSEHOLD_CLEANING", "PERSONAL_CARE", "OTHER"}

\* a line item of the parsed JSON: item_name truthy?, item_cost a number?, category
GoodItem == [item_name |-> TRUE, item_cost |-> TRUE, category |-> "PRODUCE"]
ItemShapes ==
    { GoodItem,
      [item_name |-> FALSE, item_cost |-> TRUE, category |-> "PRODUCE"],
      [item_name |-> TRUE, item_cost |-> FALSE, category |-> "PRODUCE"],
      [item_name |-> TRUE, item_cost |-> TRUE, category |-> ""],
      [item_name |-> TRUE, item_cost |-> TRUE, category |-> "TOYS"] }

\* the parsed JSON: which fields are truthy / numbers, whether the date string
\* parses ("valid", "unparsable", "missing"), and the line_items array
GoodRecord(items) ==
    [merchant_name |-> TRUE, purchase_datetime |-> "valid", currency_code |-> TRUE,
     total_amount |-> TRUE, category |-> TRUE, has_line_items |-> TRUE, line_items |-> items]

GoodItems == UNION {[1..k -> {GoodItem}] : k \in 0..MaxItems}
FullItems == {[j \in 1..MaxItems |-> GoodItem]}

\* records explored: every field right, or exactly one thing wrong
CandidateRecords ==
    {GoodRecord(items) : items \in GoodItems}
    \cup {[GoodRecord(items) EXCEPT !.merchant_name = FALSE] : items \in FullItems}
    \cup {[GoodRecord(items) EXCEPT !.purchase_datetime = d] :
              items \in FullItems, d \in {"unparsable", "missing"}}
    \cup {[GoodRecord(items) EXCEPT !.currency_code = FALSE] : items \in FullItems}
    \cup {[GoodRecord(items) EXCEPT !.total_amount = FALSE] : items \in FullItems}
    \cup {[GoodRecord(items) EXCEPT !.category = FALSE] : items \in FullItems}
    \cup {[GoodRecord(<<>>) EXCEPT !.has_line_items = FALSE]}
    \cup UNION {{GoodRecord([items EXCEPT ![j] = bad]) : j \in 1..Len(items), bad \in ItemShapes} :
                   items \in FullItems}

NoData == [GoodRecord(<<>>) EXCEPT !.has_line_items = FALSE]

\* the condition of the if at the end of the parse try block, negated
ValidExtractedData(extractedData) ==
    /\ extractedData.merchant_name
    /\ extractedData.purchase_datetime # "missing"
    /\ extractedData.total_amount
    /\ extractedData.category
    /\ extractedData.has_line_items
    /\ \A j \in 1..Len(extractedData.line_items) :
          LET item == extractedData.line_items[j]
          IN  /\ item.item_name
              /\ item.item_cost
              /\ item.category # ""
              /\ item.category \in lineItemCategories

\* what generateContent resolves with: no response (blocked), text that is not
\* JSON, or text that parses to a record
Blocked == [kind |-> "blocked", data |-> NoData]
NotJson == [kind |-> "notjson", data |-> NoData]
Json(d) == [kind |-> "json", data |-> d]
Responses == {Blocked, NotJson} \cup {Json(d) : d \in CandidateRecords}

(***************************************************************************)
(* Errors thrown inside processSingleReceipt                               *)
(***************************************************************************)
BlockedError == Failure(TRUE, NoStatus, {"Content blocked"})
\* the error of the parse catch block with another wording
ParseErrorReworded == Failure(TRUE, NoStatus, {"validation failed"})
\* new Error('Failed to parse valid extraction results from AI.')
ParseError == Failure(TRUE, NoStatus, {"Failed to parse"})
\* the inspected substrings that a file name holds
MarkersIn(fileName) ==
    CASE fileName = "Content blocked.jpg" -> {"Content blocked"}
      [] fileName = "Failed to parse.jpg" -> {"Failed to parse"}
      [] fileName = "validation failed.jpg" -> {"validation failed"}
      [] fileName = "Database operation failed.jpg" -> {"Database operation failed"}
      [] OTHER -> {}
\* new Error(`Database operation failed for ${fileName}.`)
DatabaseOperationFailed(fileName) ==
    Failure(TRUE, NoStatus, {"Database operation failed"} \cup MarkersIn(fileName))
\* what the driver rejects a connect or a statement with
DriverError == Failure(TRUE, NoStatus, {})

(***************************************************************************)
(* ProcessResult                                                           *)
(***************************************************************************)
NoResult ==
    [fileName |-> "", status |-> "none", receiptId |-> 0, errorType |-> "", shouldRetry |-> FALSE]

\* the success result without the identifier of the new row
SuccessResultNoId(fileName, id) ==
    [fileName |-> fileName, status |-> "success", receiptId |-> 0,
     errorType |-> "", shouldRetry |-> FALSE]

SuccessResult(fileName, id) ==
    [fileName |-> fileName, status |-> "success", receiptId |-> id,
     errorType |-> "", shouldRetry |-> FALSE]

ErrorResult(fileName, error) ==
    [fileName |-> fileName, status |-> "error", receiptId |-> 0,
     errorType |-> classifyError(error).type, shouldRetry |-> classifyError(error).shouldRetry]

(***************************************************************************)
(* The store: sessions with transactions, as the pg client sees them.      *)
(* A session's tx is "none" (autocommit), "open", "aborted" (a statement   *)
(* failed inside the transaction) or "lost" (the session is gone).  A      *)
(* statement that reports failure has had no effect.                       *)
(***************************************************************************)
\* the clients of the pool
Conns == DOMAIN conn
Row(t, id, j, doc) == [table |-> t, receipt_id |-> id, item |-> j, doc |-> doc]
ReceiptRow(id, doc) == Row("receipts", id, 0, doc)
LineItemRow(id, j, doc) == Row("line_items", id, j, doc)

FreshSession == [holder |-> 0, tx |-> "none", pending |-> {}]

\* BEGIN acknowledged
Begun(s) == [s EXCEPT !.tx = IF @ = "none" THEN "open" ELSE @]
\* an INSERT acknowledged: pending inside a transaction, visible at once outside
Inserted(s, row) == IF s.tx = "open" THEN [s EXCEPT !.pending = @ \cup {row}] ELSE s
Autocommitted(s, row) == IF s.tx = "none" THEN {row} ELSE {}
\* an INSERT rejected
InsertRejected(s) == IF s.tx = "open" THEN [s EXCEPT !.tx = "aborted"] ELSE s
\* COMMIT acknowledged: the pending rows of an open transaction become visible
Committed(s) == [s EXCEPT !.tx = IF @ = "lost" THEN @ ELSE "none", !.pending = {}]
MadeVisible(s) == IF s.tx = "open" THEN s.pending ELSE {}
\* a ROLLBACK that leaves the transaction as it was
RolledBackNoEffect(s) == s
\* COMMIT rejected, ROLLBACK acknowledged: the transaction is gone
RolledBack(s) == [s EXCEPT !.tx = IF @ = "lost" THEN @ ELSE "none", !.pending = {}]
\* the session is gone: the server discards its transaction
Lost(s) == [s EXCEPT !.tx = "lost", !.pending = {}]
\* a statement can be acknowledged
Accepts(s) == s.tx \in {"none", "open"}

(***************************************************************************)
(* processSingleReceipt                                                    *)
(***************************************************************************)
NoCalls == [validate |-> 0, connect |-> 0, begin |-> 0, release |-> 0]

\* the state of one invocation at its first await; responseKind records what the
\* resolved generateContent call turned out to be
Started(file) ==
    [fileName |-> file.name, pc |-> "reading", attempt |-> 0, lastError |-> Undefined,
     sleeps |-> <<>>, responseKind |-> "none", extractedData |-> NoData, dbClient |-> 0,
     newReceiptId |-> 0, acked |-> 0, queued |-> 0, result |-> NoResult, calls |-> NoCalls]

\* a statement that opens no transaction
BeginStatementMissing == "SELECT 1"

\* the statement sent right after pool.connect()
BeginStatement == "BEGIN"

\* the whole pipeline handed to retryWithBackoff
RetriedStepsAll == {"extract", "validate", "persist"}

\* the steps inside the operation handed to retryWithBackoff
RetriedSteps == {"extract"}

\* where a failure of a step goes: back into the retry loop or to the outer catch
FailureExit(step, error, attempt) ==
    IF step \in RetriedSteps THEN AfterFailure(error, attempt, PipelineOptions) ELSE "throw"

\* release on the success path only
FinallyReleasesOnSuccess(p, res) == p.dbClient # 0 /\ res.status = "success"

\* the finally block: release the client when one was acquired
FinallyReleases(p, res) == p.dbClient # 0

\* a release that does not hand the client back to the pool
ReleaseKeepsHolder(cn, c) == cn

\* pool side of client.release(): a lost session is replaced
Release(cn, c) ==
    [cn EXCEPT ![c] = IF @.tx = "lost" THEN FreshSession ELSE [@ EXCEPT !.holder = 0]]

\* return of processSingleReceipt with result res, through the finally block
ReturnedPipe(p, res) ==
    [Started(FileEntry(p.fileName)) EXCEPT
        !.pc = "done", !.result = res, !.responseKind = p.responseKind,
        !.extractedData = IF res.status = "success" THEN p.extractedData ELSE NoData,
        !.calls = [p.calls EXCEPT !.release = @ + (IF FinallyReleases(p, res) THEN 1 ELSE 0)]]

\* a return that skips the finally block
ReturnedConnHeld(cn, p, res) == cn

ReturnedConn(cn, p, res) ==
    IF FinallyReleases(p, res) THEN Release(cn, p.dbClient) ELSE cn

\* a failure of a step: the outer catch classifies it, or the retry loop sleeps
FailedPipe(p, step, error) ==
    IF FailureExit(step, error, p.attempt) = "sleep"
    THEN [p EXCEPT !.pc = "sleep", !.lastError = error,
                   !.sleeps = Append(@, BackoffDelay(PipelineOptions, p.attempt))]
    ELSE ReturnedPipe(p, ErrorResult(p.fileName, error))

FailedConn(cn, p, step, error) ==
    IF FailureExit(step, error, p.attempt) = "sleep"
    THEN cn
    ELSE ReturnedConn(cn, p, ErrorResult(p.fileName, error))

Pipes == DOMAIN pipe

\* await fileToGenerativePart, then the first generateContent call
ReadFile(i) ==
    /\ pipe[i].pc = "reading"
    /\ pipe' = [pipe EXCEPT ![i].pc = "extract", ![i].attempt = 1]
    /\ UNCHANGED <<formDataOk, files, postPc, response, conn, receipts, line_items, nextId>>
    /\ UNCHANGED <<retryVars, classifyVars, readVars, clientVars>>

\* generateContent rejects
ExtractFail(i, error) ==
    /\ pipe[i].pc = "extract"
    /\ pipe' = [pipe EXCEPT ![i] = FailedPipe(@, "extract", error)]
    /\ conn' = FailedConn(conn, pipe[i], "extract", error)
    /\ UNCHANGED <<formDataOk, files, postPc, response, receipts, line_items, nextId>>
    /\ UNCHANGED <<retryVars, classifyVars, readVars, clientVars>>

\* the backoff timer fires: next attempt, or throw lastError after the loop
Wake(i) ==
    /\ pipe[i].pc = "sleep"
    /\ IF pipe[i].attempt + 1 <= PipelineOptions.maxAttempts
       THEN /\ pipe' = [pipe EXCEPT ![i].pc = "extract", ![i].attempt = @ + 1]
            /\ UNCHANGED conn
       ELSE /\ pipe' = [pipe EXCEPT ![i] =
                           ReturnedPipe(@, ErrorResult(@.fileName, @.lastError))]
            /\ conn' = ReturnedConn(conn, pipe[i], ErrorResult(pipe[i].fileName, pipe[i].lastError))
    /\ UNCHANGED <<formDataOk, files, postPc, response, receipts, line_items, nextId>>
    /\ UNCHANGED <<retryVars, classifyVars, readVars, clientVars>>

\* generateContent resolves: blocked check, JSON.parse, validation, pool.connect()
ExtractOk(i, resp) ==
    /\ pipe[i].pc = "extract"
    /\ IF resp.kind = "blocked"
       THEN /\ pipe' = [pipe EXCEPT ![i] =
                           FailedPipe([@ EXCEPT !.responseKind = "blocked"], "validate", BlockedError)]
            /\ conn' = FailedConn(conn, pipe[i], "validate", BlockedError)
       ELSE IF resp.kind = "notjson"
       THEN /\ pipe' = [pipe EXCEPT ![i] =
                           FailedPipe([@ EXCEPT !.responseKind = "notjson"], "validate", ParseError)]
            /\ conn' = FailedConn(conn, pipe[i], "validate", ParseError)
       ELSE IF ~ValidExtractedData(resp.data)
       THEN /\ pipe' = [pipe EXCEPT ![i] =
                           FailedPipe([@ EXCEPT !.responseKind = "invalid", !.calls.validate = @ + 1],
                                      "validate", ParseError)]
            /\ conn' = FailedConn(conn, pipe[i], "validate", ParseError)
       ELSE /\ pipe' = [pipe EXCEPT ![i].pc = "connect", ![i].extractedData = resp.data,
                                    ![i].responseKind = "valid",
                                    ![i].attempt = 0, ![i].lastError = Undefined,
                                    ![i].sleeps = <<>>, ![i].calls.validate = @ + 1]
            /\ UNCHANGED conn
    /\ UNCHANGED <<formDataOk, files, postPc, response, receipts, line_items, nextId>>
    /\ UNCHANGED <<retryVars, classifyVars, readVars, clientVars>>

\* one client shared by every pipeline instead of one client each
IdleClientShared(cn, c) == c = 1

\* the pool hands out an idle client; idle sessions are interchangeable, the
\* lowest-numbered one stands for any of them
IdleClient(cn, c) == cn[c].holder = 0 /\ \A d \in 1..(c - 1) : cn[d].holder # 0

\* pool.connect() resolves with an idle client; BEGIN is sent
ConnectOk(i, c) ==
    /\ pipe[i].pc = "connect"
    /\ IdleClient(conn, c)
    /\ pipe' = [pipe EXCEPT ![i].pc = "begin", ![i].dbClient = c,
                            ![i].calls.connect = @ + 1, ![i].calls.begin = @ + 1]
    /\ conn' = [conn EXCEPT ![c].holder = i]
    /\ UNCHANGED <<formDataOk, files, postPc, response, receipts, line_items, nextId>>
    /\ UNCHANGED <<retryVars, classifyVars, readVars, clientVars>>

\* pool.connect() rejects: dbClient stays undefined
ConnectFail(i) ==
    /\ pipe[i].pc = "connect"
    /\ pipe' = [pipe EXCEPT ![i] = FailedPipe(@, "persist", DriverError)]
    /\ conn' = FailedConn(conn, pipe[i], "persist", DriverError)
    /\ UNCHANGED <<formDataOk, files, postPc, response, receipts, line_items, nextId>>
    /\ UNCHANGED <<retryVars, classifyVars, readVars, clientVars>>

\* BEGIN acknowledged; the INSERT INTO receipts is sent
BeginOk(i) ==
    /\ pipe[i].pc = "begin"
    /\ Accepts(conn[pipe[i].dbClient])
    /\ pipe' = [pipe EXCEPT ![i].pc = "parent"]
    /\ conn' = [conn EXCEPT ![pipe[i].dbClient] =
                   IF BeginStatement = "BEGIN" THEN Begun(@) ELSE @]
    /\ UNCHANGED <<formDataOk, files, postPc, response, receipts, line_items, nextId>>
    /\ UNCHANGED <<retryVars, classifyVars, readVars, clientVars>>

\* BEGIN rejected: outside the inner try, so no ROLLBACK is sent
BeginFail(i) ==
    /\ pipe[i].pc = "begin"
    /\ pipe' = [pipe EXCEPT ![i] = FailedPipe(@, "persist", DriverError)]
    /\ conn' = FailedConn(conn, pipe[i], "persist", DriverError)
    /\ UNCHANGED <<formDataOk, files, postPc, response, receipts, line_items, nextId>>
    /\ UNCHANGED <<retryVars, classifyVars, readVars, clientVars>>

\* the parent INSERT returns receipt_id; all child INSERTs are queued on the
\* client at once (Promise.all over map), or COMMIT when there are none
ParentOk(i) ==
    LET c == pipe[i].dbClient
        row == ReceiptRow(nextId, i)
    IN  /\ pipe[i].pc = "parent"
        /\ Accepts(conn[c])
        /\ pipe[i].extractedData.purchase_datetime = "valid"
        /\ pipe' = [pipe EXCEPT ![i].newReceiptId = nextId,
                                ![i].pc = IF Len(pipe[i].extractedData.line_items) > 0
                                          THEN "children" ELSE "commit"]
        /\ conn' = [conn EXCEPT ![c] = Inserted(@, row)]
        /\ receipts' = receipts \cup Autocommitted(conn[c], row)
        /\ nextId' = nextId + 1
        /\ UNCHANGED <<formDataOk, files, postPc, response, line_items>>
        /\ UNCHANGED <<retryVars, classifyVars, readVars, clientVars>>

\* the parent INSERT is rejected: catch (dbError) sends ROLLBACK
ParentFail(i) ==
    /\ pipe[i].pc = "parent"
    /\ pipe' = [pipe EXCEPT ![i].pc = "rollback", ![i].queued = 0]
    /\ conn' = [conn EXCEPT ![pipe[i].dbClient] = InsertRejected(@)]
    /\ UNCHANGED <<formDataOk, files, postPc, response, receipts, line_items, nextId>>
    /\ UNCHANGED <<retryVars, classifyVars, readVars, clientVars>>

\* resuming after the first acknowledgement
ChildrenAcknowledgedAny(acked, items) == acked >= 1

\* await Promise.all(lineItemPromises) resolves: every child INSERT acknowledged
ChildrenAcknowledged(acked, items) == acked = Len(items)

\* the next queued child INSERT is acknowledged; after the last one Promise.all
\* resolves and COMMIT is sent
ChildOk(i) ==
    LET c == pipe[i].dbClient
        row == LineItemRow(pipe[i].newReceiptId, pipe[i].acked + 1, i)
    IN  /\ pipe[i].pc = "children"
        /\ Accepts(conn[c])
        /\ pipe' = [pipe EXCEPT ![i].acked = @ + 1,
                                ![i].pc = IF ChildrenAcknowledged(pipe[i].acked + 1,
                                                                  pipe[i].extractedData.line_items)
                                          THEN "commit" ELSE "children"]
        /\ conn' = [conn EXCEPT ![c] = Inserted(@, row)]
        /\ line_items' = line_items \cup Autocommitted(conn[c], row)
        /\ UNCHANGED <<formDataOk, files, postPc, response, receipts, nextId>>
        /\ UNCHANGED <<retryVars, classifyVars, readVars, clientVars>>

\* a child INSERT is rejected: Promise.all rejects at once and catch (dbError)
\* queues ROLLBACK behind the child INSERTs still waiting on the client
ChildFail(i) ==
    /\ pipe[i].pc = "children"
    /\ pipe' = [pipe EXCEPT ![i].pc = "rollback", ![i].acked = 0,
                            ![i].queued = Len(pipe[i].extractedData.line_items) - pipe[i].acked - 1]
    /\ conn' = [conn EXCEPT ![pipe[i].dbClient] = InsertRejected(@)]
    /\ UNCHANGED <<formDataOk, files, postPc, response, receipts, line_items, nextId>>
    /\ UNCHANGED <<retryVars, classifyVars, readVars, clientVars>>

\* a child INSERT queued before ROLLBACK runs: the aborted transaction ignores it
DrainChild(i) ==
    LET c == pipe[i].dbClient
        j == Len(pipe[i].extractedData.line_items) - pipe[i].queued + 1
        row == LineItemRow(pipe[i].newReceiptId, j, i)
    IN  /\ pipe[i].pc = "rollback"
        /\ pipe[i].queued > 0
        /\ pipe' = [pipe EXCEPT ![i].queued = @ - 1]
        /\ conn' = [conn EXCEPT ![c] = Inserted(@, row)]
        /\ line_items' = line_items \cup Autocommitted(conn[c], row)
        /\ UNCHANGED <<formDataOk, files, postPc, response, receipts, nextId>>
        /\ UNCHANGED <<retryVars, classifyVars, readVars, clientVars>>

\* COMMIT acknowledged: return the success result; finally releases the client
CommitOk(i) ==
    LET c == pipe[i].dbClient
        res == SuccessResult(pipe[i].fileName, pipe[i].newReceiptId)
    IN  /\ pipe[i].pc = "commit"
        /\ conn[c].tx # "lost"
        /\ receipts' = receipts \cup {r \in MadeVisible(conn[c]) : r.table = "receipts"}
        /\ line_items' = line_items \cup {r \in MadeVisible(conn[c]) : r.table = "line_items"}
        /\ pipe' = [pipe EXCEPT ![i] = ReturnedPipe(@, res)]
        /\ conn' = ReturnedConn([conn EXCEPT ![c] = Committed(@)], pipe[i], res)
        /\ UNCHANGED <<formDataOk, files, postPc, response, nextId>>
        /\ UNCHANGED <<retryVars, classifyVars, readVars, clientVars>>

\* COMMIT rejected: catch (dbError) sends ROLLBACK
CommitFail(i) ==
    /\ pipe[i].pc = "commit"
    /\ pipe' = [pipe EXCEPT ![i].pc = "rollback", ![i].queued = 0]
    /\ conn' = [conn EXCEPT ![pipe[i].dbClient] = RolledBack(@)]
    /\ UNCHANGED <<formDataOk, files, postPc, response, receipts, line_items, nextId>>
    /\ UNCHANGED <<retryVars, classifyVars, readVars, clientVars>>

\* ROLLBACK acknowledged: throw 'Database operation failed for <fileName>.'
RollbackOk(i) ==
    LET c == pipe[i].dbClient
        p == pipe[i]
    IN  /\ p.pc = "rollback"
        /\ p.queued = 0
        /\ conn[c].tx # "lost"
        /\ pipe' = [pipe EXCEPT ![i] = FailedPipe(@, "persist", DatabaseOperationFailed(p.fileName))]
        /\ conn' = FailedConn([conn EXCEPT ![c] = RolledBack(@)], p, "persist",
                              DatabaseOperationFailed(p.fileName))
        /\ UNCHANGED <<formDataOk, files, postPc, response, receipts, line_items, nextId>>
        /\ UNCHANGED <<retryVars, classifyVars, readVars, clientVars>>

\* ROLLBACK rejected: its error leaves the catch block instead of the new Error
RollbackFail(i) ==
    LET c == pipe[i].dbClient
        p == pipe[i]
    IN  /\ p.pc = "rollback"
        /\ p.queued = 0
        /\ pipe' = [pipe EXCEPT ![i] = FailedPipe(@, "persist", DriverError)]
        /\ conn' = FailedConn([conn EXCEPT ![c] = Lost(@)], p, "persist", DriverError)
        /\ UNCHANGED <<formDataOk, files, postPc, response, receipts, line_items, nextId>>
        /\ UNCHANGED <<retryVars, classifyVars, readVars, clientVars>>

(***************************************************************************)
(* POST                                                                    *)
(***************************************************************************)
NoResponse == [status |-> 0, message |-> "", body |-> <<>>]
MessageResponse(st, m) == [status |-> st, message |-> m, body |-> <<>>]
\* a batch-level error as soon as one document failed
ResultsResponseFailing(payload) ==
    IF \E k \in 1..Len(payload) : payload[k].status = "error"
    THEN MessageResponse(500, "Error: ")
    ELSE [status |-> 200, message |-> "", body |-> payload]

\* NextResponse.json(responsePayload, { status: 200 })
ResultsResponse(payload) == [status |-> 200, message |-> "", body |-> payload]

\* the checks without the upload limit
BatchRejectionNoLimit(imageFiles) ==
    IF Len(imageFiles) = 0 THEN "No image files uploaded."
    ELSE IF \E k \in 1..Len(imageFiles) : ~imageFiles[k].isFile
         THEN "Invalid data received. Expected only files."
    ELSE ""

\* the checks without the test that every entry is a File
BatchRejectionNoFileTest(imageFiles) ==
    IF Len(imageFiles) = 0 THEN "No image files uploaded."
    ELSE IF Len(imageFiles) > MAX_FILES THEN "Too many files uploaded."
    ELSE ""

\* the checks before any processing: "" when the batch is accepted
BatchRejection(imageFiles) ==
    IF Len(imageFiles) = 0 THEN "No image files uploaded."
    ELSE IF \E k \in 1..Len(imageFiles) : ~imageFiles[k].isFile
         THEN "Invalid data received. Expected only files."
    ELSE IF Len(imageFiles) > MAX_FILES THEN "Too many files uploaded."
    ELSE ""

\* the settled promises of processSingleReceipt, once all have settled
Settled(p) == [status |-> "fulfilled", value |-> p.result]

\* the results consolidated in the opposite order
ResponsePayloadReversed(results, imageFiles) ==
    [index \in 1..Len(results) |-> results[Len(results) + 1 - index].value]

\* results.map((result, index) => ...)
ResponsePayload(results, imageFiles) ==
    [index \in 1..Len(results) |->
        IF results[index].status = "fulfilled"
        THEN results[index].value
        ELSE ErrorResult(imageFiles[index].name, results[index].reason)]

\* resuming as soon as one promise has settled
AllSettledAny(ps) == \E i \in DOMAIN ps : ps[i].pc = "done"

\* await Promise.allSettled(processingPromises) may resume
AllSettled(ps) == \A i \in DOMAIN ps : ps[i].pc = "done"

\* a rejection answered without the status option
RejectionResponseDefaultStatus(m) == MessageResponse(200, m)

\* NextResponse.json({ message }, { status: 400 })
RejectionResponse(m) == MessageResponse(400, m)

\* request.formData() rejects: the outer catch answers one message, status 500
PostParseFail ==
    /\ postPc = "idle"
    /\ ~formDataOk
    /\ response' = MessageResponse(500, "Error: ")
    /\ postPc' = "responded"
    /\ UNCHANGED <<formDataOk, files, pipe, conn, receipts, line_items, nextId>>
    /\ UNCHANGED <<retryVars, classifyVars, readVars, clientVars>>

\* a rejected request: one message, status 400
PostReject ==
    /\ postPc = "idle"
    /\ formDataOk
    /\ BatchRejection(files) # ""
    /\ response' = RejectionResponse(BatchRejection(files))
    /\ postPc' = "responded"
    /\ UNCHANGED <<formDataOk, files, pipe, conn, receipts, line_items, nextId>>
    /\ UNCHANGED <<retryVars, classifyVars, readVars, clientVars>>

\* imageFiles.map(file => processSingleReceipt(...)): every pipeline runs to its
\* first await, then POST awaits allSettled
PostAccept ==
    /\ postPc = "idle"
    /\ formDataOk
    /\ BatchRejection(files) = ""
    /\ pipe' = [i \in 1..Len(files) |-> Started(files[i])]
    /\ postPc' = "waiting"
    /\ UNCHANGED <<formDataOk, files, response, conn, receipts, line_items, nextId>>
    /\ UNCHANGED <<retryVars, classifyVars, readVars, clientVars>>

\* allSettled resolves: consolidate and answer 200
PostRespond ==
    /\ postPc = "waiting"
    /\ AllSettled(pipe)
    /\ response' = ResultsResponse(ResponsePayload([i \in DOMAIN pipe |-> Settled(pipe[i])], files))
    /\ postPc' = "responded"
    /\ UNCHANGED <<formDataOk, files, pipe, conn, receipts, line_items, nextId>>
    /\ UNCHANGED <<retryVars, classifyVars, readVars, clientVars>>

(***************************************************************************)
(* The tables as the read routes see them.  Money is in thousandths of a   *)
(* currency unit (DECIMAL columns, summed exactly by the store); a         *)
(* purchase date is a month, counted from the current month, and a day.    *)
(***************************************************************************)
CurrentMonth == 0
Null == "NULL"

StoredReceipt(id, amount, month, day, st) ==
    [table |-> "receipts", receipt_id |-> id, total_amount |-> amount, month |-> month,
     day |-> day, processing_status |-> st]
StoredItem(id, j, cat, cost) ==
    [table |-> "line_items", receipt_id |-> id, line_item_id |-> 10 * id + j, category |-> cat,
     item_cost |-> cost]

\* a receipt with its line items, as one committed transaction leaves them
Stored(id, amount, month, day, st, items) ==
    [receipt |-> StoredReceipt(id, amount, month, day, st),
     items |-> {StoredItem(id, j, items[j][1], items[j][2]) : j \in 1..Len(items)}]

\* the receipts explored: same day and same category twice, a refund that
\* turns a category sum negative (with receipt 1) or zero (with 1 and 2), a
\* sum below half a cent, a category that is NULL, earlier months, a later
\* month, a status other than COMPLETE.  No sum of these amounts ends on
\* half a cent.
Catalogue ==
    { Stored(1, 10000, CurrentMonth, 1, "COMPLETE", << <<"PRODUCE", 10000>> >>),
      Stored(2, 20000, CurrentMonth, 1, "COMPLETE", << <<"OTHER", 15000>>, <<"PRODUCE", 5000>> >>),
      Stored(3, 5000, CurrentMonth, 2, "COMPLETE", << <<Null, 5000>> >>),
      Stored(4, 10004, CurrentMonth, 2, "COMPLETE", << <<"PRODUCE", -15000>>, <<"OTHER", 4>> >>),
      Stored(5, 7000, CurrentMonth - 2, 3, "COMPLETE", << <<"OTHER", 7000>> >>),
      Stored(6, 9000, CurrentMonth, 1, "PENDING", << <<"OTHER", 9000>> >>),
      Stored(7, 3000, CurrentMonth - 6, 1, "COMPLETE", <<>>),
      Stored(8, 4000, CurrentMonth + 1, 5, "COMPLETE", <<>>) }

Stores == {S \in SUBSET Catalogue : Cardinality(S) <= MaxStored}
ReceiptsOf(S) == {p.receipt : p \in S}
ItemsOf(S) == UNION {p.items : p \in S}

\* a batch pipeline commits: the receipt and its line items become visible together
CommitBatch(p) ==
    /\ commits < MaxCommits
    /\ dash.pc \in {"total", "categories", "count", "days"} \/ hist.pc \in {"receipts", "items"}
    /\ p.receipt \notin receipts
    /\ receipts' = receipts \cup {p.receipt}
    /\ line_items' = line_items \cup p.items
    /\ commits' = commits + 1
    /\ UNCHANGED <<formDataOk, files, postPc, response, pipe, conn, nextId, dash, hist>>
    /\ UNCHANGED <<retryVars, classifyVars, clientVars>>

RECURSIVE SumTotal(_)
SumTotal(S) ==
    IF S = {} THEN 0
    ELSE LET r == CHOOSE x \in S : TRUE IN r.total_amount + SumTotal(S \ {r})

RECURSIVE SumCost(_)
SumCost(S) ==
    IF S = {} THEN 0
    ELSE LET r == CHOOSE x \in S : TRUE IN r.item_cost + SumCost(S \ {r})

\* the orders in which a statement without ORDER BY may return the rows S
Orderings(S) == {s \in [1..Cardinality(S) -> S] : \A x \in S : \E k \in DOMAIN s : s[k] = x}

RECURSIVE Ascending(_)
Ascending(S) ==
    IF S = {} THEN <<>>
    ELSE LET m == CHOOSE x \in S : \A y \in S : x <= y IN <<m>> \o Ascending(S \ {m})

(***************************************************************************)
(* dashboard-data: GET and the Dashboard component that shows its answer   *)
(***************************************************************************)
TimePeriods == {"this_month", "3_months", "6_months", "all"}
NoParam == 99

\* requests explored: the ones fetchData sends (period only), and one that
\* names a month
DashRequests ==
    {[period |-> p, month |-> NoParam] : p \in TimePeriods}
    \cup {[period |-> "absent", month |-> CurrentMonth - 2]}

\* targetYear and targetMonth: the parameters, or the current date
TargetMonth(req) == IF req.month = NoParam THEN CurrentMonth ELSE req.month

\* WHERE processing_status = 'COMPLETE' AND EXTRACT(MONTH ...) = $1 AND EXTRACT(YEAR ...) = $2
InTargetMonth(rs, target) == {r \in rs : r.processing_status = "COMPLETE" /\ r.month = target}

\* line_items li JOIN receipts r ON li.receipt_id = r.receipt_id WHERE ... the same
JoinedItems(rs, lis, target) ==
    {li \in lis : \E r \in InTargetMonth(rs, target) : r.receipt_id = li.receipt_id}

\* GROUP BY li.category with SUM(li.item_cost): one row per category, NULL included
CategoryRows(rs, lis, target) ==
    LET joined == JoinedItems(rs, lis, target)
    IN  {[category |-> c, total_amount |-> SumCost({li \in joined : li.category = c})] :
            c \in {li.category : li \in joined}}

\* GROUP BY EXTRACT(DAY ...) ORDER BY day, mapped to { day, total_amount }
DayRows(rs, target) ==
    LET rows == InTargetMonth(rs, target)
        days == Ascending({r.day : r \in rows})
    IN  [k \in DOMAIN days |->
            [bucket |-> "day", at |-> days[k],
             total_amount |-> SumTotal({r \in rows : r.day = days[k]})]]

\* parseFloat(x.toFixed(2)) of an exact amount, in hundredths
ToFixed2(v) == (v + 5) \div 10

\* parseFloat((sum / count).toFixed(2)), in hundredths: the nearest hundredth,
\* either neighbour when the quotient lies halfway (the binary value decides)
AverageTransactionValue(sum, count) ==
    IF count > 0
    THEN LET d == 10 * count
         IN  {c \in {sum \div d, (sum \div d) + 1} :
                 2 * (IF d * c >= sum THEN d * c - sum ELSE sum - d * c) <= d}
    ELSE {0}

\* every category row kept
TreemapDataUnfiltered(rows) ==
    [k \in DOMAIN rows |->
        [name |-> IF rows[k].category = Null THEN "Uncategorized" ELSE rows[k].category,
         size |-> ToFixed2(rows[k].total_amount)]]

\* treemapChildren: 'Uncategorized' for NULL, rows with size > 0 only, then
\* the size formatted to two digits
TreemapData(rows) ==
    LET kept == SelectSeq(rows, LAMBDA row : row.total_amount > 0)
    IN  [k \in DOMAIN kept |->
            [name |-> IF kept[k].category = Null THEN "Uncategorized" ELSE kept[k].category,
             size |-> ToFixed2(kept[k].total_amount)]]

DashIdle ==
    [pc |-> "unused", req |-> [period |-> "absent", month |-> NoParam], sum |-> 0,
     byCategory |-> <<>>, count |-> 0, response |-> NoResponse, pieData |-> <<>>]

DashStarted(req) == [DashIdle EXCEPT !.pc = "total", !.req = req]

DashboardData(d, avg, series) ==
    [status |-> 200, message |-> "",
     totalSpending |-> ToFixed2(d.sum),
     treemapData |-> TreemapData(d.byCategory),
     spendingByDay |-> [k \in DOMAIN series |-> [series[k] EXCEPT !.total_amount = ToFixed2(@)]],
     totalReceiptsProcessed |-> d.count,
     averageTransactionValue |-> avg,
     month |-> TargetMonth(d.req)]

\* 1. SELECT SUM(total_amount): NULL over no rows becomes 0
DashQueryTotal ==
    /\ dash.pc = "total"
    /\ dash' = [dash EXCEPT !.pc = "categories",
                            !.sum = SumTotal(InTargetMonth(receipts, TargetMonth(dash.req)))]
    /\ UNCHANGED <<pipeVars, retryVars, classifyVars, hist, commits, clientVars>>

\* 2. spending by category: the groups come in an order the store chooses
DashQueryCategories(rows) ==
    /\ dash.pc = "categories"
    /\ rows \in Orderings(CategoryRows(receipts, line_items, TargetMonth(dash.req)))
    /\ dash' = [dash EXCEPT !.pc = "count", !.byCategory = rows]
    /\ UNCHANGED <<pipeVars, retryVars, classifyVars, hist, commits, clientVars>>

\* 3. SELECT COUNT(*), parsed to an integer
DashQueryCount ==
    /\ dash.pc = "count"
    /\ dash' = [dash EXCEPT !.pc = "days",
                            !.count = Cardinality(InTargetMonth(receipts, TargetMonth(dash.req)))]
    /\ UNCHANGED <<pipeVars, retryVars, classifyVars, hist, commits, clientVars>>

\* 4. spending by day, then the response is built and sent
DashQueryDays(avg) ==
    /\ dash.pc = "days"
    /\ avg \in AverageTransactionValue(dash.sum, dash.count)
    /\ dash' = [dash EXCEPT !.pc = "responded",
                            !.response = DashboardData(dash, avg,
                                             DayRows(receipts, TargetMonth(dash.req)))]
    /\ UNCHANGED <<pipeVars, retryVars, classifyVars, hist, commits, clientVars>>

\* a query rejects: catch answers status 500 with a message
DashQueryFail ==
    /\ dash.pc \in {"total", "categories", "count", "days"}
    /\ dash' = [DashStarted(dash.req) EXCEPT
                   !.pc = "responded",
                   !.response = MessageResponse(500, "Failed to fetch dashboard data")]
    /\ UNCHANGED <<pipeVars, retryVars, classifyVars, hist, commits, clientVars>>

RECURSIVE InsertBySize(_, _)
\* x placed behind the entries that are not smaller
InsertBySize(x, sorted) ==
    IF sorted = <<>> THEN <<x>>
    ELSE IF sorted[1].size >= x.size THEN <<sorted[1]>> \o InsertBySize(x, Tail(sorted))
    ELSE <<x>> \o sorted

RECURSIVE SortBySizeDesc(_)
\* .sort((a, b) => b.size - a.size), a stable sort
SortBySizeDesc(seq) ==
    IF seq = <<>> THEN <<>>
    ELSE InsertBySize(seq[Len(seq)], SortBySizeDesc(SubSeq(seq, 1, Len(seq) - 1)))

\* the breakdown shown in the order received
PieDataUnsorted(treemapData) == treemapData

\* pieData: name and size || 0 of each node, sorted by size descending
PieData(treemapData) == SortBySizeDesc(treemapData)

\* fetchData resolves with status 200: the Dashboard derives pieData
DashboardShows ==
    /\ dash.pc = "responded"
    /\ dash.response.status = 200
    /\ dash' = [dash EXCEPT !.pc = "shown", !.pieData = PieData(dash.response.treemapData)]
    /\ UNCHANGED <<pipeVars, retryVars, classifyVars, hist, commits, clientVars>>

(***************************************************************************)
(* receipts history: GET                                                   *)
(***************************************************************************)
AllTime == -99

\* getDateRangeForPeriod: the month whose first day starts the window, or
\* AllTime where startDate is null
getDateRangeForPeriod(period) ==
    CASE period = "this_month" -> CurrentMonth
      [] period = "3_months" -> CurrentMonth - 2
      [] period = "6_months" -> CurrentMonth - 5
      [] OTHER -> AllTime

PeriodLabel(period) ==
    CASE period = "this_month" -> "current month and year"
      [] period = "3_months" -> "Last 3 months"
      [] period = "6_months" -> "Last 6 months"
      [] OTHER -> "All time"

\* page sizes and offsets explored (limit is at most 50 after Math.min)
Limits == {1, 2, 10}
Offsets == {0, 1, 2, 4}

\* selectors explored: the four periods, none (read as 'all') and one that
\* getDateRangeForPeriod does not know
Selectors == TimePeriods \cup {"absent", "last_year"}

\* requests explored: every period with every limit and offset, the other
\* selectors with the first page the ReceiptView asks for
HistRequests ==
    {[period |-> p, limit |-> l, offset |-> o] : p \in TimePeriods, l \in Limits, o \in Offsets}
    \cup {[period |-> p, limit |-> 10, offset |-> 0] : p \in Selectors \ TimePeriods}

\* the window closed at the current month
FilteredReceiptsUpToNow(rs, period) ==
    {r \in rs : /\ r.processing_status = "COMPLETE"
                /\ r.month <= CurrentMonth
                /\ \/ getDateRangeForPeriod(period) = AllTime
                   \/ r.month >= getDateRangeForPeriod(period)}

\* filtered_receipts: processing_status = 'COMPLETE', and
\* purchase_datetime >= startDate where there is a start date
FilteredReceipts(rs, period) ==
    {r \in rs : /\ r.processing_status = "COMPLETE"
                /\ \/ getDateRangeForPeriod(period) = AllTime
                   \/ r.month >= getDateRangeForPeriod(period)}

\* ORDER BY purchase_datetime DESC: receipts of one date in either order
NewestFirst(S) ==
    {s \in Orderings(S) :
        \A j, k \in DOMAIN s :
            j < k => \/ s[j].month > s[k].month
                     \/ (s[j].month = s[k].month /\ s[j].day >= s[k].day)}

\* LIMIT $1 OFFSET $2
Page(ordered, limit, offset) ==
    SubSeq(ordered, offset + 1,
           IF offset + limit < Len(ordered) THEN offset + limit ELSE Len(ordered))

\* parseInt(rows[0]?.total_count || '0'): the count column of the first row
\* of the page, or 0 when the page has no row
TotalCount(page, filtered) == IF page # <<>> THEN Cardinality(filtered) ELSE 0

\* every row of the line-item result, whatever its receipt
lineItemsUngrouped(rows, id) == rows

\* lineItemsByReceiptId[id]: the rows with that receipt_id in result order,
\* item_cost parsed and a missing category replaced by 'OTHER'
lineItemsByReceiptId(rows, id) ==
    LET own == SelectSeq(rows, LAMBDA li : li.receipt_id = id)
    IN  [k \in DOMAIN own |->
            [line_item_id |-> own[k].line_item_id, item_cost |-> own[k].item_cost,
             category |-> IF own[k].category = Null THEN "OTHER" ELSE own[k].category]]

\* seen: the pages a client walking through the pages has received so far
HistIdle ==
    [pc |-> "unused", req |-> [period |-> "absent", limit |-> 10, offset |-> 0], rows |-> <<>>,
     totalCount |-> 0, response |-> NoResponse, seen |-> <<>>]

HistStarted(req) == [HistIdle EXCEPT !.pc = "receipts", !.req = req]

RecentReceiptsResponse(withItems, totalCount, period) ==
    [status |-> 200, message |-> "", receipts |-> withItems, total_count |-> totalCount,
     period_label |-> PeriodLabel(period)]

\* the CTE statement; a page without rows is answered at once
HistQueryReceipts(ordered) ==
    /\ hist.pc = "receipts"
    /\ ordered \in NewestFirst(FilteredReceipts(receipts, hist.req.period))
    /\ LET page == Page(ordered, hist.req.limit, hist.req.offset)
           totalCount == TotalCount(page, FilteredReceipts(receipts, hist.req.period))
       IN  hist' = [hist EXCEPT
                      !.pc = IF page # <<>> THEN "items" ELSE "responded",
                      !.rows = page,
                      !.totalCount = totalCount,
                      !.response = IF page # <<>> THEN NoResponse
                                   ELSE RecentReceiptsResponse(<<>>, totalCount, hist.req.period)]
    /\ UNCHANGED <<pipeVars, retryVars, classifyVars, dash, commits, clientVars>>

\* the line-item statement for the receipts of the page, then the response
HistQueryItems(rows) ==
    /\ hist.pc = "items"
    /\ rows \in Orderings({li \in line_items :
                              \E k \in DOMAIN hist.rows : hist.rows[k].receipt_id = li.receipt_id})
    /\ hist' = [hist EXCEPT
                  !.pc = "responded",
                  !.response =
                      RecentReceiptsResponse(
                          [k \in DOMAIN hist.rows |->
                              [receipt_id |-> hist.rows[k].receipt_id,
                               total_amount |-> hist.rows[k].total_amount,
                               month |-> hist.rows[k].month,
                               day |-> hist.rows[k].day,
                               line_items |-> lineItemsByReceiptId(rows, hist.rows[k].receipt_id)]],
                          hist.totalCount, hist.req.period)]
    /\ UNCHANGED <<pipeVars, retryVars, classifyVars, dash, commits, clientVars>>

\* a statement rejects: catch answers status 500
HistQueryFail ==
    /\ hist.pc \in {"receipts", "items"}
    /\ hist' = [HistStarted(hist.req) EXCEPT
                   !.pc = "responded",
                   !.response = MessageResponse(500, "Failed to fetch receipts"),
                   !.seen = hist.seen]
    /\ UNCHANGED <<pipeVars, retryVars, classifyVars, dash, commits, clientVars>>

ReceiptIds(rows) == [k \in DOMAIN rows |-> rows[k].receipt_id]

\* a client that began at offset 0 got a full page and asks for the next one:
\* the same limit and period, the offset advanced by the page size
HistNextPage ==
    /\ hist.pc = "responded"
    /\ hist.response.status = 200
    /\ hist.req.offset = Len(hist.seen) * hist.req.limit
    /\ Len(hist.response.receipts) = hist.req.limit
    /\ hist' = [HistStarted([hist.req EXCEPT !.offset = @ + hist.req.limit]) EXCEPT
                   !.seen = Append(hist.seen, ReceiptIds(hist.response.receipts))]
    /\ UNCHANGED <<pipeVars, retryVars, classifyVars, dash, commits, clientVars>>


(***************************************************************************)
(* Two invocations of processSingleReceipt that differ in the file name    *)
(* only and fail at the same step with the same fault: what reaches the    *)
(* outer catch and the ProcessResult built from it                         *)
(***************************************************************************)
FileNames ==
    {"1.jpg", "2.jpg", "Content blocked.jpg", "Failed to parse.jpg", "validation failed.jpg",
     "Database operation failed.jpg"}

\* where an invocation can fail, and the fault of the extraction call
FailurePoints ==
    {[step |-> "extract", fault |-> f] : f \in ExtractionFaults}
    \cup {[step |-> st, fault |-> Undefined] :
             st \in {"blocked", "parse", "connect", "begin", "statement", "rollback"}}

\* the value the outer catch receives
ThrownAt(point, fileName) ==
    CASE point.step = "extract" -> point.fault
      [] point.step = "blocked" -> BlockedError
      [] point.step = "parse" -> ParseError
      [] point.step = "statement" -> DatabaseOperationFailed(fileName)
      [] OTHER -> DriverError

TwinsIdle ==
    [pc |-> "unused", names |-> <<"1.jpg", "2.jpg">>,
     point |-> [step |-> "parse", fault |-> Undefined], results |-> <<>>]

TwinsStarted(names, point) == [TwinsIdle EXCEPT !.pc = "failing", !.names = names, !.point = point]

\* both invocations fail and return their error results
TwinsFail ==
    /\ twins.pc = "failing"
    /\ twins' = [twins EXCEPT
                    !.pc = "returned",
                    !.results = [k \in 1..2 |->
                                    ErrorResult(twins.names[k],
                                                ThrownAt(twins.point, twins.names[k]))]]
    /\ UNCHANGED <<pipeVars, retryVars, classifyVars, readVars, view>>

ViewIdle ==
    [mounted |-> "none", status |-> "idle", error |-> "", currentPage |-> 0, totalCount |-> 0,
     selectedPeriod |-> "this_month", periodLabel |-> "", receipts |-> <<>>,
     data |-> NoResponse, fetches |-> <<>>]

ClientIdle ==
    /\ twins = TwinsIdle
    /\ view = ViewIdle

InitTwins ==
    /\ formDataOk = TRUE
    /\ files = <<>>
    /\ postPc = "unused"
    /\ response = NoResponse
    /\ pipe = <<>>
    /\ conn = [c \in 1..PoolSize |-> FreshSession]
    /\ receipts = {} /\ line_items = {}
    /\ nextId = 1
    /\ RetryIdle
    /\ ClassifyIdle
    /\ dash = DashIdle
    /\ hist = HistIdle
    /\ commits = 0
    /\ twins \in {TwinsStarted(names, point) :
                     names \in {n \in FileNames \X FileNames : n[1] # n[2]},
                     point \in FailurePoints}
    /\ view = ViewIdle

NextTwins == TwinsFail

SpecTwins == InitTwins /\ [][NextTwins]_vars

(***************************************************************************)
(* The ReceiptView and Dashboard components: their state, what the render  *)
(* function offers in each state, the fetches they start and how a         *)
(* response is applied.  A click handler, the render it causes and the     *)
(* effect of that render are one step: React commits the updates of a      *)
(* click and runs the effects of that commit before the next event.        *)
(***************************************************************************)
ITEMS_PER_PAGE == 10

\* n receipts of one month, one a day, without line items
Bulk(n, month) ==
    {Stored(100 * (CurrentMonth - month) + k, 1000 * k, month, k, "COMPLETE", <<>>) : k \in 1..n}

\* the tables the views are opened on: no receipt, exactly one page, one
\* receipt more than a page, more than two pages in the current month; none
\* or more than a page two months back; none or one six months back.  No two
\* receipts share a purchase date.
ViewStores ==
    {Bulk(n, CurrentMonth) \cup Bulk(m, CurrentMonth - 2) \cup Bulk(o, CurrentMonth - 6) :
        n \in {0, ITEMS_PER_PAGE, ITEMS_PER_PAGE + 1, 2 * ITEMS_PER_PAGE + 1},
        m \in {0, ITEMS_PER_PAGE + 1},
        o \in {0, 1}}

\* what a batch pipeline may commit while a view is open
ViewBatches ==
    { Stored(50, 2500, CurrentMonth, 25, "COMPLETE", << <<"OTHER", 2500>> >>),
      Stored(250, 2600, CurrentMonth - 2, 26, "COMPLETE", <<>>) }

RECURSIVE DateDescending(_)
\* ORDER BY purchase_datetime DESC of receipts with distinct purchase dates
DateDescending(S) ==
    IF S = {} THEN <<>>
    ELSE LET m == CHOOSE x \in S :
                      \A y \in S : \/ x.month > y.month
                                   \/ (x.month = y.month /\ x.day >= y.day)
         IN  <<m>> \o DateDescending(S \ {m})

ViewMounted(component) == [ViewIdle EXCEPT !.mounted = component]

\* every state shows the content with its controls
RenderedContentAlways(v) == "content"

\* the branch of the render function that returns: the spinner, the error
\* card, or the content with the period pills (and the pager)
Rendered(v) ==
    CASE v.status \in {"loading", "idle"} -> "spinner"
      [] v.status = "error" -> "error"
      [] OTHER -> "content"

\* the pager is part of the list of a non-empty page of more than ITEMS_PER_PAGE receipts
PagerRendered(v) ==
    /\ v.mounted = "receipts"
    /\ Rendered(v) = "content"
    /\ v.receipts # <<>>
    /\ v.totalCount > ITEMS_PER_PAGE

\* fetchReceipts / fetchData up to the await of fetch
Fetching(v, page, period) ==
    [v EXCEPT !.status = "loading", !.error = "",
              !.fetches = Append(@, [page |-> page, period |-> period, state |-> "sent"])]

\* useEffect: after a render in which a dependency changed, fetch again
AfterRender(old, new) ==
    IF <<new.currentPage, new.selectedPeriod>> # <<old.currentPage, old.selectedPeriod>>
    THEN Fetching(new, new.currentPage, new.selectedPeriod)
    ELSE new

\* the effect of the first render
ViewMountEffect ==
    /\ view.mounted # "none"
    /\ view.status = "idle"
    /\ view.fetches = <<>>
    /\ view' = Fetching(view, view.currentPage, view.selectedPeriod)
    /\ UNCHANGED <<pipeVars, retryVars, classifyVars, readVars, twins>>

\* the period is selected and the page is left as it is
PeriodChangedKeepingPage(v, period) == [v EXCEPT !.selectedPeriod = period]

\* setSelectedPeriod(period); setCurrentPage(0)
PeriodChanged(v, period) == [v EXCEPT !.selectedPeriod = period, !.currentPage = 0]

handlePeriodChange(period) ==
    /\ view.mounted = "receipts"
    /\ Rendered(view) = "content"
    /\ view' = AfterRender(view, PeriodChanged(view, period))
    /\ UNCHANGED <<pipeVars, retryVars, classifyVars, readVars, twins>>

\* the Next button is disabled when (currentPage + 1) * ITEMS_PER_PAGE >= totalCount
handleNextPage ==
    /\ PagerRendered(view)
    /\ (view.currentPage + 1) * ITEMS_PER_PAGE < view.totalCount
    /\ view' = AfterRender(view,
                   IF (view.currentPage + 1) * ITEMS_PER_PAGE < view.totalCount
                   THEN [view EXCEPT !.currentPage = @ + 1]
                   ELSE view)
    /\ UNCHANGED <<pipeVars, retryVars, classifyVars, readVars, twins>>

\* the Prev button is disabled on page 0
handlePrevPage ==
    /\ PagerRendered(view)
    /\ view.currentPage # 0
    /\ view' = AfterRender(view,
                   IF view.currentPage > 0 THEN [view EXCEPT !.currentPage = @ - 1] ELSE view)
    /\ UNCHANGED <<pipeVars, retryVars, classifyVars, readVars, twins>>

\* a period pill of the Dashboard
setSelectedPeriod(period) ==
    /\ view.mounted = "dashboard"
    /\ Rendered(view) = "content"
    /\ view' = AfterRender(view, [view EXCEPT !.selectedPeriod = period])
    /\ UNCHANGED <<pipeVars, retryVars, classifyVars, readVars, twins>>

\* the request of fetch k reaches its route
RouteAccepts(k) ==
    /\ k \in DOMAIN view.fetches
    /\ view.fetches[k].state = "sent"
    /\ \A j \in DOMAIN view.fetches : view.fetches[j].state # "serving"
    /\ view' = [view EXCEPT !.fetches[k].state = "serving"]
    /\ IF view.mounted = "receipts"
       THEN /\ hist' = HistStarted([period |-> view.fetches[k].period,
                                    limit |-> ITEMS_PER_PAGE,
                                    offset |-> view.fetches[k].page * ITEMS_PER_PAGE])
            /\ dash' = dash
       ELSE /\ dash' = DashStarted([period |-> view.fetches[k].period, month |-> NoParam])
            /\ hist' = hist
    /\ UNCHANGED <<pipeVars, retryVars, classifyVars, commits, twins>>

\* the fetches without the one that is answered
Settled1(fetches) == SelectSeq(fetches, LAMBDA f : f.state # "serving")

\* fetchReceipts after the await: the response is applied, or the catch block runs
FetchReceiptsSettles ==
    /\ view.mounted = "receipts"
    /\ hist.pc = "responded"
    /\ view' = IF hist.response.status = 200
               THEN [view EXCEPT !.receipts = hist.response.receipts,
                                 !.totalCount = hist.response.total_count,
                                 !.periodLabel = hist.response.period_label,
                                 !.status = "success",
                                 !.fetches = Settled1(@)]
               ELSE [view EXCEPT !.error = "Failed to fetch receipts",
                                 !.status = "error",
                                 !.fetches = Settled1(@)]
    /\ hist' = [hist EXCEPT !.pc = "delivered"]
    /\ UNCHANGED <<pipeVars, retryVars, classifyVars, dash, commits, twins>>

\* fetchData after the await; with status 200 the Dashboard derives pieData
FetchDataSettles ==
    /\ view.mounted = "dashboard"
    /\ dash.pc = "responded"
    /\ view' = IF dash.response.status = 200
               THEN [view EXCEPT !.data = dash.response,
                                 !.status = "success",
                                 !.fetches = Settled1(@)]
               ELSE [view EXCEPT !.error = dash.response.message,
                                 !.status = "error",
                                 !.data = NoResponse,
                                 !.fetches = Settled1(@)]
    /\ dash' = IF dash.response.status = 200
               THEN [dash EXCEPT !.pc = "shown", !.pieData = PieData(dash.response.treemapData)]
               ELSE [dash EXCEPT !.pc = "delivered"]
    /\ UNCHANGED <<pipeVars, retryVars, classifyVars, hist, commits, twins>>

InitView ==
    /\ formDataOk = TRUE
    /\ files = <<>>
    /\ postPc = "unused"
    /\ response = NoResponse
    /\ pipe = <<>>
    /\ conn = [c \in 1..PoolSize |-> FreshSession]
    /\ \E S \in ViewStores : receipts = ReceiptsOf(S) /\ line_items = ItemsOf(S)
    /\ nextId = 1
    /\ RetryIdle
    /\ ClassifyIdle
    /\ dash = DashIdle
    /\ hist = HistIdle
    /\ commits = 0
    /\ twins = TwinsIdle
    /\ view \in {ViewMounted(component) : component \in {"receipts", "dashboard"}}

NextView ==
    \/ ViewMountEffect
    \/ \E k \in DOMAIN view.fetches : RouteAccepts(k)
    \/ \E ordered \in {DateDescending(FilteredReceipts(receipts, hist.req.period))} :
          HistQueryReceipts(ordered)
    \/ \E rows \in Orderings({li \in line_items :
                    \E k \in DOMAIN hist.rows : hist.rows[k].receipt_id = li.receipt_id}) :
          HistQueryItems(rows)
    \/ HistQueryFail
    \/ FetchReceiptsSettles
    \/ handleNextPage
    \/ handlePrevPage
    \/ \E period \in TimePeriods : handlePeriodChange(period)
    \/ DashQueryTotal
    \/ \E rows \in Orderings(CategoryRows(receipts, line_items, TargetMonth(dash.req))) :
          DashQueryCategories(rows)
    \/ DashQueryCount
    \/ \E avg \in AverageTransactionValue(dash.sum, dash.count) : DashQueryDays(avg)
    \/ DashQueryFail
    \/ FetchDataSettles
    \/ \E period \in TimePeriods : setSelectedPeriod(period)
    \/ \E p \in ViewBatches : CommitBatch(p)

SpecView == InitView /\ [][NextView]_vars

ReadIdle ==
    /\ dash = DashIdle
    /\ hist = HistIdle
    /\ commits = 0
    /\ ClientIdle

InitDash ==
    /\ formDataOk = TRUE
    /\ files = <<>>
    /\ postPc = "unused"
    /\ response = NoResponse
    /\ pipe = <<>>
    /\ conn = [c \in 1..PoolSize |-> FreshSession]
    /\ \E S \in Stores : receipts = ReceiptsOf(S) /\ line_items = ItemsOf(S)
    /\ nextId = 1
    /\ RetryIdle
    /\ ClassifyIdle
    /\ dash \in {DashStarted(req) : req \in DashRequests}
    /\ hist = HistIdle
    /\ commits = 0
    /\ ClientIdle

NextDash ==
    \/ DashQueryTotal
    \/ \E rows \in Orderings(CategoryRows(receipts, line_items, TargetMonth(dash.req))) :
          DashQueryCategories(rows)
    \/ DashQueryCount
    \/ \E avg \in AverageTransactionValue(dash.sum, dash.count) : DashQueryDays(avg)
    \/ DashQueryFail
    \/ DashboardShows
    \/ \E p \in Catalogue : CommitBatch(p)

SpecDash == InitDash /\ [][NextDash]_vars

InitHist ==
    /\ formDataOk = TRUE
    /\ files = <<>>
    /\ postPc = "unused"
    /\ response = NoResponse
    /\ pipe = <<>>
    /\ conn = [c \in 1..PoolSize |-> FreshSession]
    /\ \E S \in Stores : receipts = ReceiptsOf(S) /\ line_items = ItemsOf(S)
    /\ nextId = 1
    /\ RetryIdle
    /\ ClassifyIdle
    /\ dash = DashIdle
    /\ hist \in {HistStarted(req) : req \in HistRequests}
    /\ commits = 0
    /\ ClientIdle

NextHist ==
    \/ \E ordered \in NewestFirst(FilteredReceipts(receipts, hist.req.period)) :
          HistQueryReceipts(ordered)
    \/ \E rows \in Orderings({li \in line_items :
                    \E k \in DOMAIN hist.rows : hist.rows[k].receipt_id = li.receipt_id}) :
          HistQueryItems(rows)
    \/ HistQueryFail
    \/ HistNextPage
    \/ \E p \in Catalogue : CommitBatch(p)

SpecHist == InitHist /\ [][NextHist]_vars

(***************************************************************************)
(* Specifications                                                          *)
(***************************************************************************)
Init ==
    /\ formDataOk \in BOOLEAN
    /\ files \in (IF formDataOk THEN Requests ELSE {<<>>})
    /\ postPc = "idle"
    /\ response = NoResponse
    /\ pipe = <<>>
    /\ conn = [c \in 1..PoolSize |-> FreshSession]
    /\ receipts = {}
    /\ line_items = {}
    /\ nextId = 1
    /\ RetryIdle
    /\ ClassifyIdle
    /\ ReadIdle

Next ==
    \/ PostParseFail
    \/ PostReject
    \/ PostAccept
    \/ PostRespond
    \/ \E i \in Pipes : ReadFile(i)
    \/ \E i \in Pipes, error \in ExtractionFaults : ExtractFail(i, error)
    \/ \E i \in Pipes : Wake(i)
    \/ \E i \in Pipes, resp \in Responses : ExtractOk(i, resp)
    \/ \E i \in Pipes, c \in Conns : ConnectOk(i, c)
    \/ \E i \in Pipes : ConnectFail(i)
    \/ \E i \in Pipes : BeginOk(i)
    \/ \E i \in Pipes : BeginFail(i)
    \/ \E i \in Pipes : ParentOk(i)
    \/ \E i \in Pipes : ParentFail(i)
    \/ \E i \in Pipes : ChildOk(i)
    \/ \E i \in Pipes : ChildFail(i)
    \/ \E i \in Pipes : DrainChild(i)
    \/ \E i \in Pipes : CommitOk(i)
    \/ \E i \in Pipes : CommitFail(i)
    \/ \E i \in Pipes : RollbackOk(i)
    \/ \E i \in Pipes : RollbackFail(i)

Spec == Init /\ [][Next]_vars

\* a pool with fewer clients than the largest batch has documents
ScarcePool == 1

InitLive ==
    /\ formDataOk \in BOOLEAN
    /\ files \in (IF formDataOk THEN Requests ELSE {<<>>})
    /\ postPc = "idle"
    /\ response = NoResponse
    /\ pipe = <<>>
    /\ conn = [c \in 1..ScarcePool |-> FreshSession]
    /\ receipts = {}
    /\ line_items = {}
    /\ nextId = 1
    /\ RetryIdle
    /\ ClassifyIdle
    /\ ReadIdle

\* POST runs when it can
PostStep == PostParseFail \/ PostReject \/ PostAccept \/ PostRespond

\* an await of pipeline i settles: the extraction call, a timer or a statement
\* returns or fails, or the pool hands out a client that is idle (a pending
\* pool.connect() is not assumed to fail on its own)
Settles(i) ==
    /\ i \in Pipes
    /\ \/ ReadFile(i)
       \/ \E error \in ExtractionFaults : ExtractFail(i, error)
       \/ Wake(i)
       \/ \E resp \in Responses : ExtractOk(i, resp)
       \/ \E c \in Conns : ConnectOk(i, c)
       \/ BeginOk(i) \/ BeginFail(i)
       \/ ParentOk(i) \/ ParentFail(i)
       \/ ChildOk(i) \/ ChildFail(i) \/ DrainChild(i)
       \/ CommitOk(i) \/ CommitFail(i)
       \/ RollbackOk(i) \/ RollbackFail(i)

Fairness ==
    /\ WF_vars(PostStep)
    /\ \A i \in 1..MaxBatch : WF_vars(Settles(i))

SpecLive == InitLive /\ [][Next]_vars /\ Fairness

InitRetry ==
    /\ formDataOk = TRUE
    /\ files = <<>>
    /\ postPc = "unused"
    /\ response = NoResponse
    /\ pipe = <<>>
    /\ conn = [c \in 1..PoolSize |-> FreshSession]
    /\ receipts = {}
    /\ line_items = {}
    /\ nextId = 1
    /\ RetryStart
    /\ ClassifyIdle
    /\ ReadIdle

NextRetry ==
    \/ \E v \in Values : RetryAttemptOk(v)
    \/ \E error \in ExtractionFaults : RetryAttemptFail(error)
    \/ RetryWake

SpecRetry == InitRetry /\ [][NextRetry]_vars

InitClassify ==
    /\ formDataOk = TRUE
    /\ files = <<>>
    /\ postPc = "unused"
    /\ response = NoResponse
    /\ pipe = <<>>
    /\ conn = [c \in 1..PoolSize |-> FreshSession]
    /\ receipts = {}
    /\ line_items = {}
    /\ nextId = 1
    /\ RetryIdle
    /\ ClassifyStart
    /\ ReadIdle

NextClassify == Classify

SpecClassify == InitClassify /\ [][NextClassify]_vars

(***************************************************************************)
(* Properties                                                              *)
(***************************************************************************)
Accepted == formDataOk /\ BatchRejection(files) = ""
\* rows of document i that readers can see
VisibleRows(i) == {r \in receipts \cup line_items : r.doc = i}
\* rows of document i written inside a transaction that has not ended
PendingRows(i) == {r \in UNION {conn[c].pending : c \in Conns} : r.doc = i}
\* the parent row with identifier id and one row per line item of the record
CompleteRows(i, id) ==
    {ReceiptRow(id, i)}
    \cup {LineItemRow(id, j, i) : j \in 1..Len(pipe[i].extractedData.line_items)}

\* C1: an accepted batch of N documents is answered with exactly N
\* ProcessResults, and the result at position i carries the file name of the
\* document at position i.
C1_OneResultPerDocumentInPosition ==
    (postPc = "responded" /\ Accepted) =>
        /\ Len(response.body) = Len(files)
        /\ \A i \in 1..Len(files) :
              /\ response.body[i].fileName = files[i].name
              /\ response.body[i].status \in {"success", "error"}

C1_Witness ==
    /\ postPc = "responded"
    /\ Len(files) = 2
    /\ Len(response.body) = 2
    /\ response.body[1].status = "error"
    /\ response.body[2].status = "success"

\* C2: the visible rows of one document are none or the complete set (parent
\* plus every line item); once its transaction has failed, and after the
\* pipeline has returned an error, none of its rows is visible.
C2_AtomicPersistence ==
    \A i \in Pipes :
        /\ \/ VisibleRows(i) = {}
           \/ \E id \in 1..nextId : VisibleRows(i) = CompleteRows(i, id)
        /\ (pipe[i].pc = "rollback" \/ pipe[i].result.status = "error") => VisibleRows(i) = {}

\* a child insert failed after the parent insert had succeeded, and the
\* transaction has been rolled back
C2_Witness ==
    /\ Len(files) = 1
    /\ Pipes = {1}
    /\ pipe[1].pc = "done"
    /\ pipe[1].result.errorType = "database_error"
    /\ nextId = 2
    /\ VisibleRows(1) = {}

\* document i succeeded only with its complete rows visible, and the response
\* carries the result of its own pipeline
OwnOutcome(i) ==
    /\ pipe[i].result.status = "success" =>
          VisibleRows(i) = CompleteRows(i, pipe[i].result.receiptId)
    /\ (postPc = "responded" /\ Accepted) => response.body[i] = pipe[i].result

\* C3: a step of one pipeline, failures included, changes neither the state nor
\* the rows of a sibling; a document that succeeded keeps its complete rows
\* visible whatever its siblings do, and the response reports each document's
\* own outcome.
C3_FaultIsolation ==
    [][ /\ \A i \in Pipes \cap DOMAIN pipe' : \A j \in Pipes \cap DOMAIN pipe' :
              (i # j /\ pipe'[j] # pipe[j]) =>
                  /\ pipe'[i] = pipe[i]
                  /\ VisibleRows(i)' = VisibleRows(i)
                  /\ PendingRows(i)' = PendingRows(i)
        /\ \A i \in DOMAIN pipe' : OwnOutcome(i)'
      ]_vars

\* one document committed, its sibling failed inside its transaction
C3_Witness ==
    /\ postPc = "responded"
    /\ Len(files) = 2
    /\ \E i \in Pipes : \E j \in Pipes :
          /\ response.body[i].status = "success"
          /\ response.body[j].errorType = "database_error"
          /\ VisibleRows(i) # {}
          /\ VisibleRows(j) = {}

\* C4: the response of an accepted batch exists only when every pipeline of
\* the batch has returned a success or an error result.
C4_JoinBarrier ==
    (postPc = "responded" /\ Accepted) =>
        \A i \in 1..Len(files) :
            /\ i \in Pipes
            /\ pipe[i].pc = "done"
            /\ pipe[i].result.status \in {"success", "error"}

\* the response was sent after one pipeline committed and the other used up
\* its attempts
C4_Witness ==
    /\ postPc = "responded"
    /\ Accepted
    /\ Pipes = {1, 2}
    /\ pipe[1].result.status = "success"
    /\ pipe[2].result.errorType = "rate_limit"

\* C5: more than MAX_FILES documents: one batch-level rejection, no pipeline
\* is started, no connection is acquired, no row is written, no ProcessResult.
C5_OverCapRejected ==
    Len(files) > MAX_FILES =>
        /\ pipe = <<>>
        /\ \A c \in Conns : conn[c] = FreshSession
        /\ receipts = {} /\ line_items = {} /\ nextId = 1
        /\ postPc \in {"idle", "responded"}
        /\ postPc = "responded" => (response.status = 400 /\ response.body = <<>>)

C5_Witness ==
    /\ Len(files) = MAX_FILES + 1
    /\ \A k \in 1..Len(files) : files[k].isFile
    /\ postPc = "responded"
    /\ response.message = "Too many files uploaded."

C7_NoHintMeansOneAttempt ==
    ( /\ Len(rErrs) >= 1
      /\ classifyError(rErrs[1]).type \in
            {"invalid_request", "auth_error", "content_blocked", "parsing_error", "general_error"} ) =>
        /\ rPc = "thrown"
        /\ Len(rErrs) = 1
        /\ rSleeps = <<>>

\* C8: after a failed attempt with attempts remaining, retryWithBackoff goes on
\* (sleeps) if and only if classifyError gives the failure a retry hint of yes
\* and its status is not a 4xx other than 429.
C8_RetryIffClassifierHint ==
    LET last == rErrs[Len(rErrs)]
        terminal4xx == last.status # NoStatus /\ last.status >= 400 /\ last.status < 500
                       /\ last.status # 429
    IN  ( /\ Len(rErrs) >= 1
          /\ rPc \in {"sleeping", "thrown"}
          /\ Len(rErrs) < rOpts.maxAttempts ) =>
            ( rPc = "sleeping" <=> (classifyError(last).shouldRetry /\ ~terminal4xx) )

\* C9: once a pipeline has left the extraction call it never returns to it;
\* validation runs at most once, at most one connection is acquired and at most
\* one transaction is started.
C9_OnlyExtractionRetried ==
    [][ \A i \in Pipes \cap DOMAIN pipe' :
            /\ pipe[i].pc \notin {"reading", "extract", "sleep"} =>
                  pipe'[i].pc \notin {"reading", "extract", "sleep"}
            /\ pipe'[i].calls.validate <= 1
            /\ pipe'[i].calls.connect <= 1
            /\ pipe'[i].calls.begin <= 1
      ]_vars

\* a persistence failure after a successful validation, with no further work
C9_Witness ==
    \E i \in Pipes :
        /\ pipe[i].pc = "done"
        /\ pipe[i].result.errorType = "database_error"
        /\ pipe[i].calls.validate = 1
        /\ pipe[i].calls.connect = 1
        /\ pipe[i].calls.begin = 1

\* C10: a pipeline that has returned has released every connection it acquired
\* exactly once and holds none; before it returns it has released nothing.
C10_ReleasedExactlyOnce ==
    \A i \in Pipes :
        /\ pipe[i].pc = "done" =>
              /\ pipe[i].calls.release = pipe[i].calls.connect
              /\ \A c \in Conns : conn[c].holder # i
        /\ pipe[i].pc # "done" =>
              /\ pipe[i].calls.release = 0
              /\ pipe[i].dbClient # 0 => conn[pipe[i].dbClient].holder = i
              /\ (pipe[i].dbClient # 0) <=> (pipe[i].calls.connect = 1)

\* the client was acquired, the pipeline failed after BEGIN was sent, and the
\* client is back in the pool
C10_Witness ==
    \E i \in Pipes :
        /\ pipe[i].pc = "done"
        /\ pipe[i].result.errorType = "general_error"
        /\ pipe[i].calls.begin = 1
        /\ pipe[i].calls.release = 1
        /\ \A c \in Conns : conn[c].holder # i

\* C11: inside a document's transaction no child insert is issued before the
\* parent insert is acknowledged, the acknowledged child inserts are exactly
\* the first acked ones, and COMMIT is issued only when the parent insert and
\* every child insert have been acknowledged.
C11_StatementOrder ==
    \A i \in Pipes :
        LET p == pipe[i]
            items == p.extractedData.line_items
            parent == ReceiptRow(p.newReceiptId, i)
            children(n) == {LineItemRow(p.newReceiptId, j, i) : j \in 1..n}
        IN  /\ p.pc \in {"connect", "begin", "parent"} =>
                  /\ p.newReceiptId = 0
                  /\ p.acked = 0
                  /\ PendingRows(i) = {}
            /\ p.pc = "children" =>
                  /\ p.newReceiptId # 0
                  /\ p.acked < Len(items)
                  /\ PendingRows(i) = {parent} \cup children(p.acked)
            /\ p.pc = "commit" =>
                  /\ p.newReceiptId # 0
                  /\ p.acked = Len(items)
                  /\ PendingRows(i) = {parent} \cup children(Len(items))

\* COMMIT has been sent after the parent and two child inserts were acknowledged
C11_Witness ==
    \E i \in Pipes :
        /\ pipe[i].pc = "commit"
        /\ Len(pipe[i].extractedData.line_items) = 2
        /\ pipe[i].acked = 2
        /\ Cardinality(PendingRows(i)) = 3

\* every field the record and each of its line items must carry is present,
\* and every line-item category is one of the enumeration
AllRequiredFields(d) ==
    /\ d.merchant_name
    /\ d.purchase_datetime # "missing"
    /\ d.currency_code
    /\ d.total_amount
    /\ d.category
    /\ d.has_line_items
    /\ \A j \in 1..Len(d.line_items) :
          /\ d.line_items[j].item_name
          /\ d.line_items[j].item_cost
          /\ d.line_items[j].category \in lineItemCategories

\* C12: a record missing a required field (merchant name, purchase datetime,
\* currency code, numeric total, category, line items, or a line item's name,
\* numeric cost or category), or with a line-item category outside the
\* enumeration, creates no receipt row and no line-item row.
C12_IncompleteRecordWritesNothing ==
    \A i \in Pipes :
        ~AllRequiredFields(pipe[i].extractedData) => VisibleRows(i) = {}

\* C13: a record whose purchase timestamp is present but does not parse to a
\* date-time is rejected by validation: no connection is acquired and no
\* transaction is started for it, and the pipeline ends with a parsing_error
\* result without a retry hint.
C13_UnparsableDateRejected ==
    \A i \in Pipes :
        pipe[i].extractedData.purchase_datetime = "unparsable" =>
            /\ pipe[i].dbClient = 0
            /\ pipe[i].calls.connect = 0
            /\ pipe[i].calls.begin = 0
            /\ pipe[i].pc = "done"
            /\ pipe[i].result.errorType = "parsing_error"
            /\ ~pipe[i].result.shouldRetry

\* C14: after a blocked response, a response that is not JSON or a record that
\* fails validation, the pipeline has returned an error result with category
\* content_blocked (block) or parsing_error (parse, validation) and no retry
\* hint, without acquiring a connection, sending a statement or writing a row.
C14_TerminalFailureShortCircuits ==
    \A i \in Pipes :
        pipe[i].responseKind \in {"blocked", "notjson", "invalid"} =>
            /\ pipe[i].pc = "done"
            /\ pipe[i].result.status = "error"
            /\ pipe[i].result.errorType =
                  (IF pipe[i].responseKind = "blocked" THEN "content_blocked" ELSE "parsing_error")
            /\ ~pipe[i].result.shouldRetry
            /\ pipe[i].dbClient = 0
            /\ pipe[i].calls.connect = 0
            /\ pipe[i].calls.begin = 0
            /\ pipe[i].newReceiptId = 0
            /\ VisibleRows(i) = {}
            /\ PendingRows(i) = {}

\* one document's record failed validation while its sibling went on to commit
C14_Witness ==
    /\ Pipes = {1, 2}
    /\ pipe[1].responseKind = "invalid"
    /\ pipe[1].result.errorType = "parsing_error"
    /\ pipe[1].calls.validate = 1
    /\ pipe[2].result.status = "success"
    /\ VisibleRows(2) # {}

\* C15: an accepted batch is never answered with a batch-level error: its
\* response has status 200 and carries one ProcessResult per document, whatever
\* number of documents failed and whatever each pipeline threw.
C15_AcceptedBatchAnswers200 ==
    (Accepted /\ response # NoResponse) =>
        /\ postPc = "responded"
        /\ response.status = 200
        /\ response.message = ""
        /\ Len(response.body) = Len(files)
        /\ \A i \in 1..Len(response.body) : response.body[i].status \in {"success", "error"}

\* every document of the batch failed, one in its transaction and one on a
\* thrown value that is not an Error
C15_Witness ==
    /\ postPc = "responded"
    /\ Len(response.body) = 2
    /\ response.status = 200
    /\ response.body[1].errorType = "database_error"
    /\ response.body[2].errorType = "unknown"

\* C16 as stated: every failure at the batch boundary (unparsable request body,
\* no entry, non-file entries, over-cap batch) is answered with one batch-level
\* error of status 4xx before any per-document work.
C16_BoundaryFailureIsClientError ==
    (postPc = "responded" /\ ~Accepted) =>
        /\ response.status >= 400 /\ response.status < 500
        /\ response.body = <<>>
        /\ pipe = <<>>

\* C16, amended: every failure at the batch boundary is answered with one
\* batch-level error before any per-document work; the status is 400 for no
\* entry, non-file entries and an over-cap batch, and 500 for a request body
\* that cannot be parsed as form data.
C16_BoundaryFailureStatus ==
    (postPc = "responded" /\ ~Accepted) =>
        /\ response.status = (IF formDataOk THEN 400 ELSE 500)
        /\ response.message # ""
        /\ response.body = <<>>
        /\ pipe = <<>>
        /\ \A c \in Conns : conn[c] = FreshSession
        /\ receipts = {} /\ line_items = {} /\ nextId = 1

\* the request body could not be parsed and the outer catch has answered
C16_Witness ==
    /\ ~formDataOk
    /\ postPc = "responded"
    /\ response.status = 500
    /\ pipe = <<>>

\* the failure is an Error whose status is a 4xx code other than 429 and 401
Other4xx(error) ==
    /\ error.isError
    /\ error.status >= 400 /\ error.status < 500
    /\ error.status \notin {429, 401}

\* the category the message tests give: first marker found, else general_error
ByMessage(error) ==
    IF "Content blocked" \in error.msg THEN Class("content_blocked", FALSE)
    ELSE IF "Failed to parse" \in error.msg THEN Class("parsing_error", FALSE)
    ELSE IF "Database operation failed" \in error.msg THEN Class("database_error", TRUE)
    ELSE Class("general_error", FALSE)

\* C17 as stated: every Error with a status of 500 or more is classified
\* service_unavailable with retry hint yes.
C17_Every5xxServiceUnavailable ==
    (cInfo # NoInfo /\ cError.isError /\ cError.status >= 500) =>
        cInfo = Class("service_unavailable", TRUE)

\* C17, amended: an Error with status 503 is classified service_unavailable,
\* an Error with any other status of 500 or more is classified server_error,
\* both with retry hint yes, whatever the message.
C17_ServerFailuresRetryable ==
    (cInfo # NoInfo /\ cError.isError /\ cError.status >= 500) =>
        cInfo = Class(IF cError.status = 503 THEN "service_unavailable" ELSE "server_error", TRUE)

C17_Witness ==
    /\ cError.isError
    /\ cError.status = 502
    /\ cError.msg = {"Failed to parse"}
    /\ cInfo = Class("server_error", TRUE)

\* C18 as stated: every Error with a 4xx status other than 429 and 401 is
\* classified invalid_request with retry hint no.
C18_Every4xxInvalidRequest ==
    (cInfo # NoInfo /\ Other4xx(cError)) => cInfo = Class("invalid_request", FALSE)

\* C18, amended: an Error with status 400 is classified invalid_request with
\* retry hint no; an Error with any other 4xx status except 429 and 401 is
\* classified by its message alone, general_error with retry hint no when the
\* message holds none of the markers.
C18_Only400InvalidRequest ==
    (cInfo # NoInfo /\ Other4xx(cError)) =>
        cInfo = (IF cError.status = 400 THEN Class("invalid_request", FALSE) ELSE ByMessage(cError))

C18_Witness ==
    /\ cError.isError
    /\ cError.status = 404
    /\ cError.msg = {}
    /\ cInfo = Class("general_error", FALSE)

\* C19: a pipeline whose record passed validation and that returned an error
\* (a failure of pool.connect(), BEGIN, an insert, COMMIT or ROLLBACK) reports
\* category database_error with retry hint yes.
C19_PersistenceFailureIsDatabaseError ==
    \A i \in Pipes :
        (pipe[i].responseKind = "valid" /\ pipe[i].result.status = "error") =>
            /\ pipe[i].result.errorType = "database_error"
            /\ pipe[i].result.shouldRetry

\* C20 as stated: classifyError returns one of the eight categories, the retry
\* hint is yes only for service_unavailable, rate_limit and database_error, and
\* a failure without a known status or marker gets general_error, hint no.
C20_ClosedTaxonomy ==
    cInfo # NoInfo =>
        /\ cInfo.type \in {"service_unavailable", "rate_limit", "invalid_request", "auth_error",
                           "content_blocked", "parsing_error", "database_error", "general_error"}
        /\ cInfo.shouldRetry => cInfo.type \in {"service_unavailable", "rate_limit", "database_error"}
        /\ (cError.status \notin {503, 429, 400, 401} /\ cError.status < 500 /\ cError.msg = {}) =>
              cInfo = Class("general_error", FALSE)

\* C20, amended: classifyError returns one of ten categories (the eight plus
\* server_error and unknown); the retry hint is yes exactly for
\* service_unavailable, rate_limit, server_error and database_error; a thrown
\* value that is not an Error gets unknown, hint no; an Error without a status
\* of the switch and without a marker gets general_error, hint no.
C20_TaxonomyOfTen ==
    cInfo # NoInfo =>
        /\ cInfo.type \in {"service_unavailable", "rate_limit", "invalid_request", "auth_error",
                           "content_blocked", "parsing_error", "database_error", "general_error",
                           "server_error", "unknown"}
        /\ cInfo.shouldRetry <=>
              cInfo.type \in {"service_unavailable", "rate_limit", "server_error", "database_error"}
        /\ ~cError.isError => cInfo = Class("unknown", FALSE)
        /\ ( /\ cError.isError
             /\ cError.status \notin {503, 429, 400, 401} /\ cError.status < 500
             /\ cError.msg \cap {"Content blocked", "Failed to parse", "Database operation failed"} = {} ) =>
              cInfo = Class("general_error", FALSE)

\* a thrown object that is not an Error, with a status field the switch knows
C20_Witness ==
    /\ ~cError.isError
    /\ cError.status = 503
    /\ cInfo = Class("unknown", FALSE)

\* C21: classifyError gives an Error with status 429 rate_limit with retry
\* hint yes, an Error with status 401 auth_error with retry hint no, and the
\* Error of a content-safety block (no status, message with 'Content blocked')
\* content_blocked with retry hint no, whatever else the message holds.
C21_RateLimitAuthAndBlock ==
    (cInfo # NoInfo /\ cError.isError) =>
        /\ cError.status = 429 => cInfo = Class("rate_limit", TRUE)
        /\ cError.status = 401 => cInfo = Class("auth_error", FALSE)
        /\ (cError.status = NoStatus /\ "Content blocked" \in cError.msg) =>
              cInfo = Class("content_blocked", FALSE)

\* a block whose reason text also holds the marker of a parse failure
C21_Witness ==
    /\ cError = Failure(TRUE, NoStatus, {"Content blocked", "Failed to parse"})
    /\ cInfo = Class("content_blocked", FALSE)

\* C29: for a policy with maxAttempts >= 1, the k-th sleep is
\* min(baseDelay * backoffMultiplier^(k-1), maxDelay), so no sleep exceeds
\* maxDelay and sleeps do not decrease when the multiplier is at least 1; a
\* run that has ended slept exactly (number of attempts - 1) times.
C29_SleepSchedule ==
    rOpts.maxAttempts >= 1 =>
        /\ \A k \in 1..Len(rSleeps) :
              /\ rSleeps[k] = Min(rOpts.baseDelay * Pow(rOpts.backoffMultiplier, k - 1),
                                  rOpts.maxDelay)
              /\ rSleeps[k] <= rOpts.maxDelay
        /\ rOpts.backoffMultiplier >= 1 =>
              \A k \in 1..(Len(rSleeps) - 1) : rSleeps[k] <= rSleeps[k + 1]
        /\ rPc = "returned" => Len(rSleeps) = (Len(rErrs) + 1) - 1
        /\ rPc = "thrown" => Len(rSleeps) = Len(rErrs) - 1

\* three attempts under a cap below the second delay: the second sleep is the cap
C29_Witness ==
    /\ rOpts = [maxAttempts |-> 3, baseDelay |-> 1000, maxDelay |-> 1500, backoffMultiplier |-> 2]
    /\ rPc = "thrown"
    /\ Len(rErrs) = 3
    /\ rSleeps = <<1000, 1500>>

\* C30: a pipeline has returned success exactly when its transaction was
\* committed: on success the receipt row with the returned receiptId and one
\* row per line item of the record are visible and nothing else of the
\* document; on error no row of the document is visible; no document ever has
\* more than one receipt row.
C30_SuccessIffCommitted ==
    \A i \in Pipes :
        /\ Cardinality({r \in receipts : r.doc = i}) <= 1
        /\ pipe[i].pc # "done" => VisibleRows(i) = {}
        /\ pipe[i].pc = "done" =>
              /\ (pipe[i].result.status = "success") <=> (VisibleRows(i) # {})
              /\ pipe[i].result.status = "success" =>
                    /\ {r.receipt_id : r \in VisibleRows(i)} = {pipe[i].result.receiptId}
                    /\ Cardinality({r \in line_items : r.doc = i}) =
                          Len(pipe[i].extractedData.line_items)
                    /\ Cardinality({r \in receipts : r.doc = i}) = 1

\* a committed document with two line items next to one that was rolled back
\* after its parent insert
C30_Witness ==
    /\ Pipes = {1, 2}
    /\ pipe[1].result.status = "success"
    /\ Cardinality(VisibleRows(1)) = 3
    /\ pipe[2].result.errorType = "database_error"
    /\ pipe[2].responseKind = "valid"
    /\ nextId = 3
    /\ VisibleRows(2) = {}

\* C22: no pipeline makes more than 3 extraction attempts or 2 backoff sleeps,
\* and when every await eventually settles each pipeline of an accepted batch
\* returns a success or an error result, also when the batch has more
\* documents than the pool has clients.
C22_PipelinesTerminate ==
    /\ [](\A i \in Pipes : pipe[i].attempt <= 3 /\ Len(pipe[i].sleeps) <= 2)
    /\ (postPc = "waiting") ~>
          (\A i \in Pipes : pipe[i].pc = "done" /\ pipe[i].result.status \in {"success", "error"})

\* two documents went through the only client of the pool one after the other
C22_Witness ==
    /\ Cardinality(Conns) = 1
    /\ Pipes = {1, 2}
    /\ \A i \in Pipes :
          /\ pipe[i].pc = "done"
          /\ pipe[i].calls.connect = 1
          /\ pipe[i].calls.release = 1
    /\ pipe[1].result.status = "success"
    /\ pipe[2].result.errorType = "database_error"


(***************************************************************************)
(* dashboard-data                                                          *)
(***************************************************************************)
Answered200 == dash.pc \in {"responded", "shown"} /\ dash.response.status = 200

\* C23: the aggregation returns total = the sum of total_amount over the
\* COMPLETE receipts of the window rounded to two digits, count = the number
\* of those receipts and average = unrounded total / count rounded to two
\* digits (0 when count is 0): some set of COMPLETE receipts of the window
\* that the tables hold accounts for the three numbers together
C23_TotalCountAverage ==
    Answered200 =>
        \E R \in SUBSET InTargetMonth(receipts, TargetMonth(dash.req)) :
            /\ dash.response.totalSpending = ToFixed2(SumTotal(R))
            /\ dash.response.totalReceiptsProcessed = Cardinality(R)
            /\ dash.response.averageTransactionValue
                   \in AverageTransactionValue(SumTotal(R), Cardinality(R))

\* the names of the breakdown tm are the categories of the window whose
\* summed item cost is strictly positive, each once
PositiveCategoriesOnce(tm, rs, lis, target) ==
    LET joined == JoinedItems(rs, lis, target)
        positive == {c \in {li.category : li \in joined} :
                        SumCost({li \in joined : li.category = c}) > 0}
    IN  /\ {tm[k].name : k \in DOMAIN tm}
              = {IF c = Null THEN "Uncategorized" ELSE c : c \in positive}
        /\ \A j, k \in DOMAIN tm : tm[j].name = tm[k].name => j = k

\* C24: the per-category breakdown has exactly one entry per distinct
\* line-item category whose summed amount in the window is strictly
\* positive; a category whose sum is zero or negative does not appear and
\* none appears twice.  The category statement fixes the breakdown from the
\* tables as it reads them, and the response carries that breakdown.
C24_BreakdownOfPositiveCategories ==
    /\ [][(dash.pc = "categories" /\ dash'.pc = "count")
             => PositiveCategoriesOnce(TreemapData(dash'.byCategory), receipts, line_items,
                                       TargetMonth(dash.req))]_vars
    /\ [](Answered200 => dash.response.treemapData = TreemapData(dash.byCategory))

\* a breakdown was returned that has an entry, while another category of the
\* window summed to zero or less, and a category came from two receipts
C24_Witness ==
    /\ Answered200
    /\ dash.response.treemapData # <<>>
    /\ \E k \in DOMAIN dash.byCategory : dash.byCategory[k].total_amount <= 0
    /\ \E li, lj \in line_items : li.category = lj.category /\ li.receipt_id # lj.receipt_id

Descending(seq) == \A j, k \in DOMAIN seq : j < k => seq[j].size >= seq[k].size

\* C25 as stated: the per-category breakdown returned by the aggregation
\* service is sorted by descending summed amount
C25_ServiceBreakdownSorted == Answered200 => Descending(dash.response.treemapData)

\* C25: the breakdown the Dashboard component shows (pieData) holds the
\* entries of the returned breakdown sorted by descending summed amount; the
\* response itself lists them in the order of the GROUP BY result
C25_ShownBreakdownSorted ==
    dash.pc = "shown" =>
        /\ Descending(dash.pieData)
        /\ Len(dash.pieData) = Len(dash.response.treemapData)
        /\ {dash.pieData[k] : k \in DOMAIN dash.pieData}
              = {dash.response.treemapData[k] : k \in DOMAIN dash.response.treemapData}

\* the Dashboard shows a breakdown of several entries that came unsorted
C25_Witness ==
    /\ dash.pc = "shown"
    /\ Len(dash.pieData) >= 2
    /\ ~Descending(dash.response.treemapData)

\* the receipt months the selector period names
InWindow(month, period) ==
    getDateRangeForPeriod(period) = AllTime \/ month >= getDateRangeForPeriod(period)

\* C26: the time series is day-bucketed for this month and month-bucketed
\* for the last 3 months, the last 6 months and all time, and it is taken
\* over the window the request's selector names (on tables that did not
\* change: it has a bucket exactly if that window holds a COMPLETE receipt)
C26_SeriesFollowsSelector ==
    (Answered200 /\ dash.req.period \in TimePeriods) =>
        /\ \A k \in DOMAIN dash.response.spendingByDay :
              dash.response.spendingByDay[k].bucket
                 = (IF dash.req.period = "this_month" THEN "day" ELSE "month")
        /\ commits = 0 =>
              (dash.response.spendingByDay # <<>>
                 <=> \E r \in receipts : /\ r.processing_status = "COMPLETE"
                                          /\ InWindow(r.month, dash.req.period))

(***************************************************************************)
(* receipts history                                                        *)
(***************************************************************************)
\* C27: for every page size and every offset, offsets at or beyond the end
\* of the filtered set included, total_count equals the number of COMPLETE
\* receipts in the selected window: the receipts statement yields that
\* number from the tables it reads, and the response carries it
C27_TotalCountOfWindow ==
    /\ [][(hist.pc = "receipts" /\ hist'.pc # "receipts" /\ hist'.response.status # 500)
             => hist'.totalCount
                  = Cardinality(FilteredReceipts(receipts, hist.req.period))]_vars
    /\ []((hist.pc = "responded" /\ hist.response.status = 200)
             => hist.response.total_count = hist.totalCount)

\* C28: every receipt returned by the history query carries exactly the
\* line items whose owning receipt id is that receipt, each once, none
\* missing and none of another receipt, also when batches commit between the
\* receipt read and the line-item read
C28_OwnLineItems ==
    (hist.pc = "responded" /\ hist.response.status = 200) =>
        \A k \in DOMAIN hist.response.receipts :
            LET r == hist.response.receipts[k]
            IN  /\ {r.line_items[j].line_item_id : j \in DOMAIN r.line_items}
                      = {li.line_item_id : li \in {x \in line_items : x.receipt_id = r.receipt_id}}
                /\ \A i, j \in DOMAIN r.line_items :
                      r.line_items[i].line_item_id = r.line_items[j].line_item_id => i = j

\* a page of two receipts, one with two line items, was answered after a
\* batch committed a receipt of the window behind the receipt read
C28_Witness ==
    /\ hist.pc = "responded"
    /\ hist.response.status = 200
    /\ Len(hist.response.receipts) = 2
    /\ \E k \in DOMAIN hist.response.receipts : Len(hist.response.receipts[k].line_items) = 2
    /\ commits = 1
    /\ hist.response.total_count < Cardinality(FilteredReceipts(receipts, hist.req.period))

(***************************************************************************)
(* Connections, retry budget, empty and malformed batches                  *)
(***************************************************************************)
Held(i) == {c \in Conns : conn[c].holder = i}
Persisting(i) == pipe[i].pc \in {"begin", "parent", "children", "commit", "rollback"}

\* C31: a pipeline holds at most one pool connection and holds none while it
\* reads the file, is in the extraction call (validation follows it in the
\* same turn), sleeps, waits for pool.connect() or has returned; the
\* connections in use are never more than the pipelines in their
\* persistence step.
C31_ConnectionOnlyWhilePersisting ==
    /\ \A i \in Pipes :
          /\ Cardinality(Held(i)) <= 1
          /\ ~Persisting(i) => Held(i) = {}
          /\ Persisting(i) => Held(i) = {pipe[i].dbClient}
    /\ \A c \in Conns : conn[c].holder # 0 => conn[c].holder \in Pipes
    /\ Cardinality({c \in Conns : conn[c].holder # 0})
          <= Cardinality({i \in Pipes : Persisting(i)})

\* one pipeline sleeps between attempts without a connection while its
\* sibling holds one inside its transaction
C31_Witness ==
    /\ Pipes = {1, 2}
    /\ pipe[1].pc = "sleep"
    /\ pipe[1].attempt = 2
    /\ pipe[2].pc = "children"
    /\ Held(2) = {1}
    /\ Held(1) = {}

C38_EmptyOrMalformedBatchRejected ==
    (formDataOk /\ (Len(files) = 0 \/ \E k \in 1..Len(files) : ~files[k].isFile)) =>
        /\ pipe = <<>>
        /\ \A c \in Conns : conn[c] = FreshSession
        /\ receipts = {} /\ line_items = {} /\ nextId = 1
        /\ postPc \in {"idle", "responded"}
        /\ postPc = "responded" =>
              /\ response.status = 400
              /\ response.body = <<>>
              /\ response.message = (IF Len(files) = 0 THEN "No image files uploaded."
                                     ELSE "Invalid data received. Expected only files.")

\* a batch of one file and one string entry was answered
C38_Witness ==
    /\ formDataOk
    /\ Len(files) = 2
    /\ files[1].isFile /\ ~files[2].isFile
    /\ postPc = "responded"
    /\ response.status = 400

(***************************************************************************)
(* Snapshot of the dashboard answer                                        *)
(***************************************************************************)
\* the answer d computed throughout from the receipts R and their line items
ComputedFrom(d, R, target) ==
    /\ d.totalSpending = ToFixed2(SumTotal(R))
    /\ d.totalReceiptsProcessed = Cardinality(R)
    /\ d.averageTransactionValue \in AverageTransactionValue(SumTotal(R), Cardinality(R))
    /\ \E rows \in Orderings(CategoryRows(R, line_items, target)) :
          d.treemapData = TreemapData(rows)
    /\ d.spendingByDay
          = [k \in DOMAIN DayRows(R, target) |->
                [DayRows(R, target)[k] EXCEPT !.total_amount = ToFixed2(@)]]

\* C34: the DashboardData of one request is a consistent snapshot: total,
\* count, average, category breakdown and daily series are all computed from
\* one set of committed receipts, also when batch pipelines commit receipts
\* while the request's statements run
C34_ConsistentSnapshot ==
    Answered200 =>
        \E R \in SUBSET InTargetMonth(receipts, TargetMonth(dash.req)) :
            ComputedFrom(dash.response, R, TargetMonth(dash.req))

(***************************************************************************)
(* Pages and windows of the history query                                  *)
(***************************************************************************)
RECURSIVE Flatten(_)
Flatten(pages) == IF pages = <<>> THEN <<>> ELSE pages[1] \o Flatten(Tail(pages))

ReceiptWithId(id) == CHOOSE r \in receipts : r.receipt_id = id

\* a walk from offset 0 has reached its last page, with no write since it began
WalkEnded ==
    /\ hist.pc = "responded"
    /\ hist.response.status = 200
    /\ hist.req.offset = Len(hist.seen) * hist.req.limit
    /\ Len(hist.response.receipts) < hist.req.limit
    /\ commits = 0

\* C32: the pages taken at offsets 0, L, 2L, ... with the same window and no
\* write in between partition the filtered set: every filtered receipt is in
\* exactly one page, the pages follow descending purchase_datetime, also
\* when receipts share a purchase_datetime, and no page has more than
\* min(L, 50) receipts
C32_PagesPartitionFilteredSet ==
    WalkEnded =>
        LET pages == Append(hist.seen, ReceiptIds(hist.response.receipts))
            ids == Flatten(pages)
        IN  /\ {ids[k] : k \in DOMAIN ids}
                  = {r.receipt_id : r \in FilteredReceipts(receipts, hist.req.period)}
            /\ \A j, k \in DOMAIN ids : ids[j] = ids[k] => j = k
            /\ \A j, k \in DOMAIN ids :
                  j < k => \/ ReceiptWithId(ids[j]).month > ReceiptWithId(ids[k]).month
                           \/ /\ ReceiptWithId(ids[j]).month = ReceiptWithId(ids[k]).month
                              /\ ReceiptWithId(ids[j]).day >= ReceiptWithId(ids[k]).day
            /\ \A k \in DOMAIN pages :
                  Len(pages[k]) <= (IF hist.req.limit < 50 THEN hist.req.limit ELSE 50)

\* the COMPLETE receipts on or after the first day of the month the selector
\* names, every COMPLETE receipt for any other selector
InNamedWindow(r, selector) ==
    /\ r.processing_status = "COMPLETE"
    /\ selector = "this_month" => r.month >= CurrentMonth
    /\ selector = "3_months" => r.month >= CurrentMonth - 2
    /\ selector = "6_months" => r.month >= CurrentMonth - 5

\* C33: the history query filters by the named window with an open upper
\* end: the rows its receipts statement returns are receipts of the window,
\* all of them when the page is wide enough, and the count it reports with a
\* page that has rows is the size of the window; 'all', no selector and an
\* unknown selector name every COMPLETE receipt
C33_WindowOfSelector ==
    [][(hist.pc = "receipts" /\ hist'.pc \in {"items", "responded"}
          /\ hist'.response.status # 500)
         => LET window == {r \in receipts : InNamedWindow(r, hist.req.period)}
                got == {hist'.rows[k].receipt_id : k \in DOMAIN hist'.rows}
            IN  /\ got \subseteq {r.receipt_id : r \in window}
                /\ Cardinality(got) = Len(hist'.rows)
                /\ (hist.req.offset = 0 /\ hist.req.limit >= Cardinality(window))
                      => got = {r.receipt_id : r \in window}
                /\ hist'.rows # <<>> => hist'.totalCount = Cardinality(window)]_vars

\* this_month answered with a receipt dated next month and without the
\* stored receipt of two months ago; an unknown selector would return both
C33_Witness ==
    /\ hist.pc = "responded"
    /\ hist.response.status = 200
    /\ hist.req = [period |-> "this_month", limit |-> 10, offset |-> 0]
    /\ \E r \in receipts : r.receipt_id = 5
    /\ \E r \in receipts : r.receipt_id = 6
    /\ \E k \in DOMAIN hist.response.receipts : hist.response.receipts[k].receipt_id = 8
    /\ Len(hist.response.receipts) = 1
    /\ hist.response.period_label = PeriodLabel("this_month")

(***************************************************************************)
(* File names and error results                                            *)
(***************************************************************************)
\* C36: the category and the retry hint of an error ProcessResult do not
\* depend on the file name: two documents that differ in file name only and
\* fail at the same step with the same fault get the same errorType and
\* shouldRetry
C36_FileNameIndependence ==
    twins.pc = "returned" =>
        /\ twins.results[1].errorType = twins.results[2].errorType
        /\ twins.results[1].shouldRetry = twins.results[2].shouldRetry

TablesDuringFetch ==
    {receipts \ C : C \in {D \in SUBSET ReceiptsOf(ViewBatches) : Cardinality(D) <= commits}}

\* C40: a mounted receipts view or dashboard has at most one fetch in flight,
\* so no two responses can be applied in either order; when no fetch is in
\* flight and the status is success, the receipts (their ids and order), the
\* total count and the period label shown are those of the response to the
\* request for the selected period and the current page, which the route
\* computed from the tables as they were during the fetch, and the dashboard
\* shows the response to the request for the selected period
C40_OneFetchAnswersSelection ==
    /\ Len(view.fetches) <= 1
    /\ (view.mounted = "receipts" /\ view.fetches = <<>> /\ view.status = "success") =>
          /\ hist.req = [period |-> view.selectedPeriod, limit |-> ITEMS_PER_PAGE,
                         offset |-> view.currentPage * ITEMS_PER_PAGE]
          /\ hist.response.status = 200
          /\ view.receipts = hist.response.receipts
          /\ view.totalCount = hist.response.total_count
          /\ view.periodLabel = hist.response.period_label
          /\ view.periodLabel = PeriodLabel(view.selectedPeriod)
          /\ \E R \in TablesDuringFetch :
                LET filtered == FilteredReceipts(R, view.selectedPeriod)
                    page == Page(DateDescending(filtered), ITEMS_PER_PAGE,
                                 view.currentPage * ITEMS_PER_PAGE)
                IN  /\ ReceiptIds(view.receipts) = ReceiptIds(page)
                    /\ view.totalCount = TotalCount(page, filtered)
    /\ (view.mounted = "dashboard" /\ view.fetches = <<>> /\ view.status = "success") =>
          /\ dash.req = [period |-> view.selectedPeriod, month |-> NoParam]
          /\ dash.response.status = 200
          /\ view.data = dash.response

\* the second page of another period is shown after a batch was committed
\* during a fetch
C40_Witness ==
    /\ view.mounted = "receipts"
    /\ view.fetches = <<>>
    /\ view.status = "success"
    /\ view.selectedPeriod = "all"
    /\ view.currentPage = 1
    /\ commits > 0
    /\ view.totalCount > ITEMS_PER_PAGE

====
